---- MODULE Spec2Model ----
(***************************************************************************)
(* A model of tardis: the manifest / directory-cache / backup and restore  *)
(* engine of src/tardis/manifest.py, src/tardis/tree.py and                *)
(* src/tardis/__init__.py.                                                 *)
(*                                                                         *)
(* Strings are sequences of one-character strings, so that the csv module  *)
(* (quoting on write, the reader's state machine on read), os.path         *)
(* (basename, join) and the int <-> decimal conversions are computed the   *)
(* way the code computes them.                                             *)
(*                                                                         *)
(* CHOOSE out \in { e(x) : x \in {v} } : TRUE is e(v), written so where v   *)
(* is costly and e uses it more than once: v is then evaluated once.       *)
(***************************************************************************)
EXTENDS Integers, Sequences, FiniteSets, TLC

(***************************************************************************)
(* Characters                                                              *)
(***************************************************************************)
DELIM == ":"
QUOTE == "\""
LF == "\n"
CR == "\r"
NUL == "NUL"
SLASH == "/"

Digits == <<"0", "1", "2", "3", "4", "5", "6", "7", "8", "9">>

\* str(n) for a non-negative int, as csv.writer formats the numeric fields
RECURSIVE IntToStr(_)
IntToStr(n) ==
    IF n < 10 THEN <<Digits[n + 1]>>
    ELSE IntToStr(n \div 10) \o <<Digits[(n % 10) + 1]>>

IsDigit(c) == \E i \in 1..10 : Digits[i] = c

DigitVal(c) == (CHOOSE i \in 1..10 : Digits[i] = c) - 1

\* int(s) / long(s) accept a non-empty string of decimal digits
\* (sign and surrounding blanks do not occur in the alphabet of the model)
IsIntStr(s) == Len(s) > 0 /\ \A i \in 1..Len(s) : IsDigit(s[i])

RECURSIVE StrToInt(_)
StrToInt(s) ==
    IF Len(s) = 0 THEN 0
    ELSE 10 * StrToInt(SubSeq(s, 1, Len(s) - 1)) + DigitVal(s[Len(s)])

\* "".join(parts)
RECURSIVE Concat(_)
Concat(parts) ==
    IF Len(parts) = 0 THEN <<>> ELSE Head(parts) \o Concat(Tail(parts))

\* sep.join(parts)
RECURSIVE Join(_, _)
Join(parts, sep) ==
    IF Len(parts) = 0 THEN <<>>
    ELSE IF Len(parts) = 1 THEN parts[1]
    ELSE parts[1] \o sep \o Join(Tail(parts), sep)

(***************************************************************************)
(* csv.writer(stream, delimiter=':', lineterminator='\n')                  *)
(* default dialect: QUOTE_MINIMAL, quotechar '"', doublequote              *)
(***************************************************************************)
\* a field is quoted when it holds the delimiter, the quote character or a
\* character of the line terminator
NeedsQuote(field) ==
    \E i \in 1..Len(field) : field[i] \in {DELIM, QUOTE, LF}

RECURSIVE DoubleQuotes(_)
DoubleQuotes(field) ==
    IF Len(field) = 0 THEN <<>>
    ELSE (IF Head(field) = QUOTE THEN <<QUOTE, QUOTE>> ELSE <<Head(field)>>)
         \o DoubleQuotes(Tail(field))

WriteField(field) ==
    IF NeedsQuote(field) THEN <<QUOTE>> \o DoubleQuotes(field) \o <<QUOTE>>
    ELSE field

\* writer.writerow(fields): a row made of one empty field is written as "".
\* (f and written stand for fields and the written fields, evaluated once)
WriteRow(fields) ==
    CHOOSE line \in
       { IF Len(f) = 1 /\ f[1] = <<>> THEN <<QUOTE, QUOTE, LF>>
         ELSE CHOOSE joined \in
                 { Join(written, <<DELIM>>) \o <<LF>> :
                     written \in {<<>> \o [i \in 1..Len(f) |-> WriteField(f[i])]} } : TRUE :
         f \in {fields} } : TRUE

\* writer.writerows(rows)
WriteRows(rows) ==
    CHOOSE text \in
       { Concat(lines) : lines \in {<<>> \o [i \in 1..Len(rows) |-> WriteRow(rows[i])]} } : TRUE

(***************************************************************************)
(* csv.reader(stream, delimiter=':', lineterminator='\n')                  *)
(* The stream is iterated line by line (lines end at LF); the reader runs  *)
(* its state machine over the characters of each line and then over NUL.   *)
(***************************************************************************)
ReaderInit ==
    [state |-> "START_RECORD", field |-> <<>>, fields |-> <<>>,
     rows |-> <<>>, err |-> FALSE]

SaveField(st) == [st EXCEPT !.fields = Append(st.fields, st.field), !.field = <<>>]

\* the record is complete: the reader yields the fields collected so far
EmitRow(st) ==
    [st EXCEPT !.rows = Append(st.rows, st.fields), !.fields = <<>>,
               !.state = "START_RECORD"]

EndOfField(st, c) ==
    IF c = NUL THEN EmitRow(SaveField(st))
    ELSE [SaveField(st) EXCEPT !.state = "EAT_CRNL"]

InField(st, c) ==
    IF c \in {LF, CR, NUL} THEN EndOfField(st, c)
    ELSE IF c = DELIM THEN [SaveField(st) EXCEPT !.state = "START_FIELD"]
    ELSE [st EXCEPT !.field = Append(st.field, c)]

StartField(st, c) ==
    IF c \in {LF, CR, NUL} THEN EndOfField(st, c)
    ELSE IF c = QUOTE THEN [st EXCEPT !.state = "IN_QUOTED_FIELD"]
    ELSE IF c = DELIM THEN SaveField(st)
    ELSE [st EXCEPT !.field = Append(st.field, c), !.state = "IN_FIELD"]

\* parse_process_char
ReadChar(st, c) ==
    IF st.err THEN st
    ELSE CASE st.state = "START_RECORD" ->
                IF c = NUL THEN EmitRow(st)
                ELSE IF c \in {LF, CR} THEN [st EXCEPT !.state = "EAT_CRNL"]
                ELSE StartField([st EXCEPT !.state = "START_FIELD"], c)
           [] st.state = "START_FIELD" -> StartField(st, c)
           [] st.state = "IN_FIELD" -> InField(st, c)
           [] st.state = "IN_QUOTED_FIELD" ->
                IF c = NUL THEN st
                ELSE IF c = QUOTE THEN [st EXCEPT !.state = "QUOTE_IN_QUOTED_FIELD"]
                ELSE [st EXCEPT !.field = Append(st.field, c)]
           [] st.state = "QUOTE_IN_QUOTED_FIELD" ->
                IF c = QUOTE
                THEN [st EXCEPT !.field = Append(st.field, c), !.state = "IN_QUOTED_FIELD"]
                ELSE IF c = DELIM THEN [SaveField(st) EXCEPT !.state = "START_FIELD"]
                ELSE IF c \in {LF, CR, NUL} THEN EndOfField(st, c)
                ELSE [st EXCEPT !.field = Append(st.field, c), !.state = "IN_FIELD"]
           [] st.state = "EAT_CRNL" ->
                IF c \in {LF, CR} THEN st
                ELSE IF c = NUL THEN EmitRow(st)
                ELSE [st EXCEPT !.err = TRUE]   \* "new-line character seen in unquoted field"

\* Reader_iternext over text[lo..hi]: after the last character of a line (an
\* LF, or the end of the text) the reader is fed NUL. The characters are taken
\* in order; the range is halved only to keep the evaluation shallow.
RECURSIVE ReadFrom(_, _, _, _)
ReadFrom(st, text, lo, hi) ==
    IF lo > hi THEN st
    ELSE IF lo = hi
    THEN LET s1 == ReadChar(st, text[lo])
         IN IF text[lo] = LF \/ lo = Len(text) THEN ReadChar(s1, NUL) ELSE s1
    ELSE LET mid == (lo + hi) \div 2
             left == ReadFrom(st, text, lo, mid)
         IN IF left.err THEN left ELSE ReadFrom(left, text, mid + 1, hi)

\* the rows the reader yields, or an error; at the end of the input a pending
\* quoted field is yielded as it stands
ReadRows(text) ==
    LET st == ReadFrom(ReaderInit, text, 1, Len(text))
    IN IF st.err THEN [err |-> TRUE, rows |-> <<>>]
       ELSE IF st.state = "IN_QUOTED_FIELD"
            THEN [err |-> FALSE, rows |-> Append(st.rows, Append(st.fields, st.field))]
       ELSE [err |-> FALSE, rows |-> st.rows]

(***************************************************************************)
(* os.path, sha1sum                                                        *)
(***************************************************************************)
\* position of the last "/" of p, 0 when there is none
RECURSIVE LastSlash(_, _)
LastSlash(p, i) ==
    IF i = 0 THEN 0 ELSE IF p[i] = SLASH THEN i ELSE LastSlash(p, i - 1)

\* os.path.basename
Basename(p) == SubSeq(p, LastSlash(p, Len(p)) + 1, Len(p))

\* os.path.join(d, name), name relative
PathJoin(d, name) ==
    IF Len(d) > 0 /\ d[Len(d)] = SLASH THEN d \o name ELSE d \o <<SLASH>> \o name

\* startswith
StartsWith(s, prefix) ==
    Len(prefix) <= Len(s) /\ SubSeq(s, 1, Len(prefix)) = prefix

\* os.getcwd()
Cwd == <<SLASH>>

\* os.path.abspath(p): a relative path is joined to the working directory, a
\* trailing slash is dropped (the paths of the model hold no ".", ".." or "//")
abspath(p) ==
    LET q == IF p = <<>> THEN Cwd
             ELSE IF p[1] = SLASH THEN p
             ELSE PathJoin(Cwd, p)
    IN IF Len(q) > 1 /\ q[Len(q)] = SLASH THEN SubSeq(q, 1, Len(q) - 1) ELSE q

\* sha1sum(...).hexdigest(): collision-free on the strings of the model, and
\* made of hexadecimal digits only; each character is given its own digit
HexChar(c) ==
    CASE c = "a" -> "1" [] c = "b" -> "2" [] c = "c" -> "3" [] c = "d" -> "4"
      [] c = "x" -> "5" [] c = "y" -> "6" [] c = "z" -> "7"
      [] c = DELIM -> "8" [] c = QUOTE -> "9" [] c = LF -> "a" [] c = CR -> "b"
      [] c = "." -> "c" [] c = SLASH -> "d"
      [] OTHER -> "e"

sha1sum(s) == [i \in 1..Len(s) |-> HexChar(s[i])] \o <<"f">>

(***************************************************************************)
(* StatInfo, FileEntry, NullFileEntry                                      *)
(***************************************************************************)
\* StatInfo is the tuple <<owner, group, mode, ctime, mtime, size>>
StatInfo(owner, group, mode, ctime, mtime, size) ==
    <<owner, group, mode, ctime, mtime, size>>

FileEntry(file_path, object_id, stat_info) ==
    [kind |-> "file", path |-> file_path, object_id |-> object_id,
     stat_info |-> stat_info]

\* FileEntry.__init__ raises ValueError for an empty path or object id
FileEntryValid(file_path, object_id) == file_path # <<>> /\ object_id # <<>>

\* NullFileEntry(): stat_info is the empty tuple, there is no path or object id
NullFileEntry ==
    [kind |-> "null", path |-> <<>>, object_id |-> <<>>, stat_info |-> <<>>]

\* checksum as the whole object id instead of its last segment
checksum_WholeId(e) ==
    IF e.kind = "file" THEN [str |-> TRUE, val |-> e.object_id]
    ELSE [str |-> FALSE, val |-> <<>>]

\* FileEntry.checksum is the last segment of the object id. NullFileEntry.checksum
\* is a method, not a property: read as an attribute it is a bound method, which
\* equals no string
checksum(e) ==
    IF e.kind = "file" THEN [str |-> TRUE, val |-> Basename(e.object_id)]
    ELSE [str |-> FALSE, val |-> <<>>]

\* checksum_differs with a sentinel that compares equal to every entry
checksum_differs_NullEqual(self, other) ==
    IF self.kind = "null" \/ other.kind = "null" THEN FALSE
    ELSE checksum(self) # checksum(other)

checksum_differs(self, other) ==
    IF self.kind = "null" THEN TRUE
    ELSE checksum(self) # checksum(other)

\* FileEntry.as_fields, each field as the csv writer formats it (str of the ints)
as_fields(e) ==
    <<e.path, e.object_id, e.stat_info[1], e.stat_info[2],
      IntToStr(e.stat_info[3]), IntToStr(e.stat_info[4]),
      IntToStr(e.stat_info[5]), IntToStr(e.stat_info[6])>>

\* FileEntry.from_fields raises IndexError for a row of fewer than 8 fields,
\* ValueError for a numeric field that is no number, ValueError for an empty
\* path or object id
FromFieldsOk(fields) ==
    /\ Len(fields) >= 8
    /\ \A i \in 5..8 : IsIntStr(fields[i])
    /\ FileEntryValid(fields[1], fields[2])

from_fields(fields) ==
    FileEntry(fields[1], fields[2],
              StatInfo(fields[3], fields[4], StrToInt(fields[5]),
                       StrToInt(fields[6]), StrToInt(fields[7]), StrToInt(fields[8])))

\* an object id whose first segment hashes the whole path instead of the basename
ObjectId_FullPath(path, content) ==
    <<"d", "a", "t", "a", SLASH>> \o sha1sum(path) \o <<SLASH>> \o sha1sum(content)

\* DirectoryEntry._object_id: "data/{sha1(basename)}/{sha1(content)}"
ObjectId(path, content) ==
    <<"d", "a", "t", "a", SLASH>> \o sha1sum(Basename(path)) \o <<SLASH>> \o sha1sum(content)

(***************************************************************************)
(* Manifest                                                                *)
(***************************************************************************)
Manifest(name, manifest) == [name |-> name, manifest |-> manifest]

\* no Manifest (the value of a call that raised)
NoManifest == Manifest(<<>>, <<>>)

\* the KeyError a plain subscript of the dict raises for a missing key
KeyError == [kind |-> "KeyError", path |-> <<>>, object_id |-> <<>>, stat_info |-> <<>>]

\* __getitem__ as a plain subscript of the dict, without the default
GetItem_Subscript(m, item) ==
    IF item \in DOMAIN m.manifest THEN m.manifest[item] ELSE KeyError

\* Manifest.__getitem__
GetItem(m, item) ==
    IF item \in DOMAIN m.manifest THEN m.manifest[item] ELSE NullFileEntry

\* Manifest without __eq__: two instances are compared by identity
ManifestEq_Identity(m1, m2) == FALSE

\* Manifest.__eq__ comparing the mappings alone, not the names
ManifestEq_MappingOnly(m1, m2) == m1.manifest = m2.manifest

\* Manifest.__eq__: the instance dictionaries are compared
ManifestEq(m1, m2) == m1.name = m2.name /\ m1.manifest = m2.manifest

\* Manifest.to_csv; order is the iteration order of the dict
to_csv(m, order) ==
    WriteRow(<<m.name>>)
    \o WriteRows([i \in 1..Len(order) |-> as_fields(m.manifest[order[i]])])

\* the entries of rows[i..], keyed by path, the last row of a path winning
RECURSIVE EntriesOf(_, _, _)
EntriesOf(rows, i, acc) ==
    IF i > Len(rows) THEN acc
    ELSE LET e == from_fields(rows[i])
         IN EntriesOf(rows, i + 1,
                      [p \in (DOMAIN acc) \cup {e.path} |->
                          IF p = e.path THEN e ELSE acc[p]])

\* Manifest.from_csv: an error (csv.Error, StopIteration, IndexError, ValueError)
\* or the manifest
from_csv(text) ==
    CHOOSE out \in
       { IF r.err \/ Len(r.rows) = 0 \/ Len(r.rows[1]) = 0
            \/ \E i \in 2..Len(r.rows) : ~FromFieldsOk(r.rows[i])
         THEN [err |-> TRUE, value |-> Manifest(<<>>, <<>>)]
         ELSE [err |-> FALSE,
               value |-> Manifest(r.rows[1][1], EntriesOf(r.rows, 2, <<>>))] :
         r \in {ReadRows(text)} } : TRUE

\* all orders in which a dict with the keys S may be iterated
RECURSIVE Orders(_)
Orders(S) ==
    IF S = {} THEN {<<>>}
    ELSE UNION {{<<x>> \o o : o \in Orders(S \ {x})} : x \in S}

(***************************************************************************)
(* Manifest names                                                          *)
(***************************************************************************)
Pad2(n) == <<Digits[((n \div 10) % 10) + 1], Digits[(n % 10) + 1]>>

\* util.iso8601 at clock value t (minutes:seconds stand for the whole stamp;
\* fixed width, so that the string order is the order of time)
iso8601(t) == <<"T">> \o Pad2(t \div 60) \o <<DELIM>> \o Pad2(t % 60)

name_prefix_for(hostname, user) ==
    <<"m", "a", "n", "i", "f", "e", "s", "t", SLASH>> \o hostname \o <<SLASH>>
    \o user \o <<SLASH>>

name_for(hostname, user, t) == name_prefix_for(hostname, user) \o iso8601(t)

HostName == <<"h">>
UserName == <<"u">>

(***************************************************************************)
(* The file system, as os.listdir / os.path.isdir / os.path.isfile / open  *)
(* / StatInfo.for_file see it.  fsys maps the path of each directory to    *)
(*   [readable, files, dirs, cache]:                                       *)
(*   files  regular files: name -> [content, stat], stat being the         *)
(*          StatInfo that StatInfo.for_file returns for the file           *)
(*   dirs   names of its subdirectories                                    *)
(*   cache  the file .tardis_manifest: [state, text], state one of         *)
(*          "absent", "unreadable" (open raises IOError), "text"           *)
(***************************************************************************)
CacheName ==
    <<".", "t", "a", "r", "d", "i", "s", "_", "m", "a", "n", "i", "f", "e", "s", "t">>

AbsentCache == [state |-> "absent", text |-> <<>>]

UnreadableCache == [state |-> "unreadable", text |-> <<>>]

TextCache(text) == [state |-> "text", text |-> text]

IsDir(fsys, path) == path \in DOMAIN fsys

\* the names os.listdir(path) returns; order is the order of the directory
NamesIn(fsys, path) ==
    (DOMAIN fsys[path].files) \cup fsys[path].dirs
    \cup (IF fsys[path].cache.state = "absent" THEN {} ELSE {CacheName})

RECURSIVE Filter(_, _)
Filter(q, S) ==
    IF Len(q) = 0 THEN <<>>
    ELSE (IF Head(q) \in S THEN <<Head(q)>> ELSE <<>>) \o Filter(Tail(q), S)

ListDir(fsys, order, path) == Filter(order, NamesIn(fsys, path))

(***************************************************************************)
(* Order of strings: sorted() compares byte strings by character code      *)
(***************************************************************************)
Ord(c) ==
    CASE c = LF -> 10 [] c = CR -> 13 [] c = QUOTE -> 34 [] c = "." -> 46
      [] c = SLASH -> 47 [] c = DELIM -> 58 [] c = "T" -> 84 [] c = "_" -> 95
      [] IsDigit(c) -> 48 + DigitVal(c)
      [] c = "a" -> 97 [] c = "b" -> 98 [] c = "c" -> 99 [] c = "d" -> 100
      [] c = "e" -> 101 [] c = "f" -> 102 [] c = "g" -> 103 [] c = "h" -> 104
      [] c = "i" -> 105 [] c = "m" -> 109 [] c = "n" -> 110 [] c = "r" -> 114
      [] c = "s" -> 115 [] c = "t" -> 116 [] c = "u" -> 117 [] c = "x" -> 120
      [] c = "y" -> 121 [] c = "z" -> 122

\* s < t for strings
StrLess(s, t) ==
    \E k \in 1..(Len(t)) :
        /\ \A j \in 1..(k - 1) : j <= Len(s) /\ s[j] = t[j]
        /\ Len(s) >= k - 1
        /\ (Len(s) = k - 1 \/ Ord(s[k]) < Ord(t[k]))

\* sorted(S): the strings of the set S in increasing order
RECURSIVE Sorted(_)
Sorted(S) ==
    IF S = {} THEN <<>>
    ELSE LET least == CHOOSE x \in S : \A y \in S \ {x} : StrLess(x, y)
         IN <<least>> \o Sorted(S \ {least})

\* the elements of a sequence, as a set
Range(q) == { q[i] : i \in 1..Len(q) }

(***************************************************************************)
(* DirectoryEntry                                                          *)
(***************************************************************************)
_CACHE_IGNORE_LIMIT == 65536

DirectoryEntry(path, entries) == [status |-> "ok", path |-> path, entries |-> entries]

ScanError == [status |-> "error", path |-> <<>>, entries |-> <<>>]

\* for_directory.create_cache: an IOError of open gives the empty cache; what
\* the reader or FileEntry.from_fields raises on the content is not caught
create_cache(cache) ==
    IF cache.state # "text" THEN [err |-> FALSE, cache |-> <<>>]
    ELSE LET r == ReadRows(cache.text)
         IN IF r.err \/ \E i \in 1..Len(r.rows) : ~FromFieldsOk(r.rows[i])
            THEN [err |-> TRUE, cache |-> <<>>]
            ELSE [err |-> FALSE, cache |-> EntriesOf(r.rows, 1, <<>>)]

\* get_file_entry comparing the times of the cached StatInfo only, not its size
UseCached_TimesOnly(cache, file_path, stat_info) ==
    /\ stat_info[6] > _CACHE_IGNORE_LIMIT
    /\ file_path \in DOMAIN cache
    /\ cache[file_path].stat_info[4] = stat_info[4]
    /\ cache[file_path].stat_info[5] = stat_info[5]

\* get_file_entry consulting the cache from the limit on, not only above it
UseCached_AtLimit(cache, file_path, stat_info) ==
    /\ stat_info[6] >= _CACHE_IGNORE_LIMIT
    /\ (IF file_path \in DOMAIN cache THEN cache[file_path] ELSE NullFileEntry).stat_info
         = stat_info

\* get_file_entry returning whatever entry the cache has under the path
UseCached_AnyCached(cache, file_path, stat_info) ==
    /\ stat_info[6] > _CACHE_IGNORE_LIMIT
    /\ file_path \in DOMAIN cache

\* for_directory.get_file_entry decides to return the cached entry
UseCached(cache, file_path, stat_info) ==
    /\ stat_info[6] > _CACHE_IGNORE_LIMIT
    /\ (IF file_path \in DOMAIN cache THEN cache[file_path] ELSE NullFileEntry).stat_info
         = stat_info

\* for_directory.get_file_entry
get_file_entry(cache, file_path, file) ==
    IF UseCached(cache, file_path, file.stat) THEN cache[file_path]
    ELSE FileEntry(file_path, ObjectId(file_path, file.content), file.stat)

\* the regular files in the order os.listdir gives them, not sorted
ScanNames_Unsorted(fsys, order, path) ==
    Filter(ListDir(fsys, order, path), DOMAIN fsys[path].files)

\* the regular files of the directory in the order for_directory takes them:
\* sorted by name, the cache file left out
ScanNames(fsys, order, path) ==
    LET listed == Range(ListDir(fsys, order, path)) \ {CacheName}
    IN Filter(Sorted(listed), DOMAIN fsys[path].files)

\* DirectoryEntry.for_directory: the DirectoryEntry or the error, with the
\* cache it loaded and the paths whose content it read
for_directory(fsys, order, given) ==
    LET path == abspath(given)
    IN IF ~IsDir(fsys, path) \/ ~fsys[path].readable
       THEN [result |-> ScanError, cache |-> <<>>, hashed |-> {}]
       ELSE LET c == create_cache(fsys[path].cache)
                names == ScanNames(fsys, order, path)
            IN IF c.err THEN [result |-> ScanError, cache |-> <<>>, hashed |-> {}]
               ELSE [result |->
                       DirectoryEntry(path,
                           [i \in 1..Len(names) |->
                               get_file_entry(c.cache, PathJoin(path, names[i]),
                                              fsys[path].files[names[i]])]),
                     cache |-> c.cache,
                     hashed |-> { PathJoin(path, n) : n \in
                                   { m \in Range(names) :
                                       ~UseCached(c.cache, PathJoin(path, m),
                                                  fsys[path].files[m].stat) } }]

\* from_cache taking a cache file that cannot be opened for an empty one
from_cache_Lenient(fsys, path) ==
    IF fsys[path].cache.state # "text" THEN DirectoryEntry(path, <<>>)
    ELSE CHOOSE out \in
            { IF r.err \/ \E i \in 1..Len(r.rows) : ~FromFieldsOk(r.rows[i])
              THEN ScanError
              ELSE DirectoryEntry(path, [i \in 1..Len(r.rows) |-> from_fields(r.rows[i])]) :
              r \in {ReadRows(fsys[path].cache.text)} } : TRUE

\* DirectoryEntry.from_cache: open raises IOError when the cache file is absent
\* or unreadable, the reader and FileEntry.from_fields raise on a malformed
\* row; otherwise the DirectoryEntry of the rows, in the order of the file
from_cache(fsys, path) ==
    IF fsys[path].cache.state # "text" THEN ScanError
    ELSE CHOOSE out \in
            { IF r.err \/ \E i \in 1..Len(r.rows) : ~FromFieldsOk(r.rows[i])
              THEN ScanError
              ELSE DirectoryEntry(path, [i \in 1..Len(r.rows) |-> from_fields(r.rows[i])]) :
              r \in {ReadRows(fsys[path].cache.text)} } : TRUE

\* write_cache opening the cache file for appending: the rows are written
\* after what the file held
write_cache_Append(fsys, entry) ==
    [fsys EXCEPT ![entry.path].cache =
        TextCache(@.text \o
                  WriteRows([i \in 1..Len(entry.entries) |-> as_fields(entry.entries[i])]))]

\* DirectoryEntry.write_cache: the cache file is overwritten with one row per entry
write_cache(fsys, entry) ==
    [fsys EXCEPT ![entry.path].cache =
        TextCache(WriteRows([i \in 1..Len(entry.entries) |-> as_fields(entry.entries[i])]))]


(***************************************************************************)
(* Tree                                                                    *)
(***************************************************************************)
Tree(value, children) == [value |-> value, children |-> children]

\* fmap that applies f to the value of the root alone
fmap_RootOnly(t, f) == Tree(f[t.value], t.children)

\* Tree.fmap: a new tree of f(value) and of the children's fmap(f), in order
RECURSIVE fmap(_, _)
fmap(t, f) ==
    Tree(f[t.value], [i \in 1..Len(t.children) |-> fmap(t.children[i], f)])

\* iteration that yields a node after its descendants
RECURSIVE TreeIter_PostOrder(_)
TreeIter_PostOrder(t) ==
    Concat([i \in 1..Len(t.children) |-> TreeIter_PostOrder(t.children[i])]) \o <<t.value>>

\* Tree.__iter__: the values in pre-order
RECURSIVE TreeIter(_)
TreeIter(t) ==
    <<t.value>> \o Concat([i \in 1..Len(t.children) |-> TreeIter(t.children[i])])

(***************************************************************************)
(* Manifest.from_filesystem                                                *)
(***************************************************************************)
\* child_directories that does not leave out the names that start with "."
child_directories_Hidden(fsys, order, ignored, dirname) ==
    LET listed == ListDir(fsys, order, dirname)
        names == [i \in 1..Len(listed) |-> PathJoin(dirname, listed[i])]
    IN Filter(names, { n \in Range(names) : IsDir(fsys, n) /\ n \notin ignored })

\* _build_manifest.child_directories: the subdirectories of dirname whose name
\* does not start with "." and whose path is not in ignored_directories
child_directories(fsys, order, ignored, dirname) ==
    LET listed == ListDir(fsys, order, dirname)
        names == [i \in 1..Len(listed) |-> PathJoin(dirname, listed[i])]
        kept == { names[i] : i \in { k \in 1..Len(listed) : listed[k][1] # "." } }
    IN Filter(names, { n \in kept : IsDir(fsys, n) /\ n \notin ignored })

\* os.listdir raises OSError somewhere in the tree under path
RECURSIVE ListingFails(_, _, _, _)
ListingFails(fsys, order, ignored, path) ==
    \/ ~fsys[path].readable
    \/ \E c \in Range(child_directories(fsys, order, ignored, path)) :
          ListingFails(fsys, order, ignored, c)

\* Tree.build_tree(path, child_directories), when no listing fails
RECURSIVE build_tree(_, _, _, _)
build_tree(fsys, order, ignored, path) ==
    LET cs == child_directories(fsys, order, ignored, path)
    IN Tree(path, [i \in 1..Len(cs) |-> build_tree(fsys, order, ignored, cs[i])])

\* dict.update / dict comprehension: the entries of a sequence, keyed by path,
\* put over acc
RECURSIVE UpdateWith(_, _, _)
UpdateWith(acc, entries, i) ==
    IF i > Len(entries) THEN acc
    ELSE UpdateWith([p \in (DOMAIN acc) \cup {entries[i].path} |->
                        IF p = entries[i].path THEN entries[i] ELSE acc[p]],
                    entries, i + 1)

\* directory_tree.fmap(f) over the directories dirs[i..] in the order fmap
\* visits them (pre-order); the first error ends the walk.  f is
\* "to_directory_entry" (each directory is scanned and its cache is written)
\* or "from_cache" (each DirectoryEntry is read from the cache file).  scanned
\* lists the directories for_directory was called with
RECURSIVE ScanTree(_, _, _, _, _, _)
ScanTree(fsys, order, dirs, i, acc, f) ==
    IF i > Len(dirs)
    THEN [err |-> FALSE, fsys |-> fsys, entries |-> acc,
          scanned |-> IF f = "from_cache" THEN <<>> ELSE dirs]
    ELSE CHOOSE out \in
            { IF r.result.status # "ok"
              THEN [err |-> TRUE, fsys |-> fsys, entries |-> acc,
                    scanned |-> IF f = "from_cache" THEN <<>> ELSE SubSeq(dirs, 1, i)]
              ELSE CHOOSE rest \in
                      { ScanTree(written, order, dirs, i + 1, merged, f) :
                          written \in {IF f = "from_cache" THEN fsys
                                       ELSE write_cache(fsys, r.result)},
                          merged \in {UpdateWith(acc, r.result.entries, 1)} } : TRUE :
              r \in {IF f = "from_cache" THEN [result |-> from_cache(fsys, dirs[i])]
                     ELSE for_directory(fsys, order, dirs[i])} } : TRUE

\* Manifest._build_manifest(path, f, ignored_directories)
_build_manifest(fsys, order, ignored, path, f) ==
    IF path = <<>> \/ ~IsDir(fsys, path) \/ ListingFails(fsys, order, ignored, path)
    THEN [err |-> TRUE, fsys |-> fsys, entries |-> <<>>, scanned |-> <<>>]
    ELSE ScanTree(fsys, order, TreeIter(build_tree(fsys, order, ignored, path)), 1, <<>>, f)

\* the loop of from_filesystem over paths[i..]
RECURSIVE BuildRoots(_, _, _, _, _, _, _)
BuildRoots(fsys, order, ignored, paths, i, acc, scanned) ==
    IF i > Len(paths)
    THEN [err |-> FALSE, fsys |-> fsys, entries |-> acc, scanned |-> scanned]
    ELSE CHOOSE out \in
            { IF r.err THEN [err |-> TRUE, fsys |-> r.fsys, entries |-> acc,
                             scanned |-> scanned \o r.scanned]
              ELSE BuildRoots(r.fsys, order, ignored, paths, i + 1,
                              [p \in (DOMAIN acc) \cup (DOMAIN r.entries) |->
                                  IF p \in DOMAIN r.entries THEN r.entries[p] ELSE acc[p]],
                              scanned \o r.scanned) :
              r \in {_build_manifest(fsys, order, ignored, paths[i],
                                     "to_directory_entry")} } : TRUE

\* from_filesystem checking user and paths but not hostname
ArgsOk_NoHostname(hostname, user, paths) == user # <<>> /\ paths # <<>>

\* the three checks from_filesystem begins with
ArgsOk(hostname, user, paths) == hostname # <<>> /\ user # <<>> /\ paths # <<>>

\* Manifest.from_filesystem(hostname, user, paths, ignored_directories) at
\* clock value t: the manifest or the error, and the file system it leaves
from_filesystem(fsys, order, hostname, user, paths, ignored, t) ==
    IF ~ArgsOk(hostname, user, paths)
    THEN [status |-> "error", manifest |-> NoManifest, fsys |-> fsys, scanned |-> <<>>]
    ELSE CHOOSE out \in
            { IF r.err THEN [status |-> "error", manifest |-> NoManifest,
                             fsys |-> r.fsys, scanned |-> r.scanned]
              ELSE [status |-> "ok",
                    manifest |-> Manifest(name_for(hostname, user, t), r.entries),
                    fsys |-> r.fsys, scanned |-> r.scanned] :
              r \in {BuildRoots(fsys, order, ignored, paths, 1, <<>>, <<>>)} } : TRUE

\* Manifest.from_cache(hostname, user, path) at clock value t: the walk of
\* _build_manifest with DirectoryEntry.from_cache for f and no ignored
\* directories, named as from_filesystem names its manifest
Manifest_from_cache(fsys, order, hostname, user, path, t) ==
    CHOOSE out \in
       { IF r.err THEN [status |-> "error", manifest |-> NoManifest]
         ELSE [status |-> "ok",
               manifest |-> Manifest(name_for(hostname, user, t), r.entries)] :
         r \in {_build_manifest(fsys, order, {}, path, "from_cache")} } : TRUE

(***************************************************************************)
(* State                                                                   *)
(***************************************************************************)
VARIABLES
    csvM,       \* to_csv / from_csv: the manifest M
    csvText,    \* the text to_csv wrote to the stream
    csvBack,    \* what from_csv made of the text: [err, value]
    csvPc,      \* "built", "written", "read"
    fs,         \* the file system: directory path -> [readable, files, cache]
    lsOrder,    \* the order in which os.listdir returns names
    scanResult, \* what the last DirectoryEntry.for_directory returned or raised
    scanSeen,   \* the regular files of the directory when it was last scanned
    scanCache,  \* the cache dict the last scan loaded
    hashed,     \* the paths whose content the last scan read
    prevScan,   \* the result of the scan before the last one, when only the
                \* writing of its cache lies between the two
    since,      \* what happened since the last scan: "scanned", "written", "dirty"
    clock,      \* the time util.iso8601 reads
    treeArgs,   \* the arguments of the last Manifest.from_filesystem
    treeFs,     \* the file system when the last from_filesystem began
    treeResult, \* what the last from_filesystem returned or raised
    blobs,      \* the bucket: the keys under which put_archive stored an archive
    manifests,  \* the bucket: manifest key -> the csv text stored under it
    bPc,        \* backup: "idle", "loop", "done", "nochange", "get_failed",
                \* "put_failed", "persist_failed"
    bLatest,    \* backup: latest_manifest
    bNew,       \* backup: new_manifest
    bOrder,     \* backup: the order in which the dict of new_manifest iterates
    bTodo,      \* backup: the paths the for loop has still to take, in that order
    bDecided,   \* backup: path -> [held, needs], what the bucket held under the
                \* entry's object id when needs_put was asked, and its answer
    bPut,       \* backup: the paths whose put_archive has returned
    bStart,     \* backup: the bucket when the run began
    bPrev,      \* backup: how the run before ended, what it scanned and put
    runs,       \* the number of backup runs begun
    callOp,     \* the method last called on a value: "none", "getitem",
                \* "checksum_differs", "fmap", "iter", "object_id"
    callArgs,   \* the arguments of that call
    callResult, \* what the call returned
    rPc,        \* restore: "idle", "roots", "fetched", "done", "failed"
    rManifest,  \* restore: the manifest get_manifest returned
    rRoots,     \* restore: restore_roots
    rRoot,      \* restore: the index in restore_roots of the root being restored
    rTodo,      \* restore: the paths the generator of that root has still to yield
    rLog        \* restore: the calls of get_archive and restore_archive, in order

csvVars == <<csvM, csvText, csvBack, csvPc>>

fsVars == <<fs, lsOrder>>

scanVars == <<scanResult, scanSeen, scanCache, hashed, prevScan, since>>

treeVars == <<treeArgs, treeFs, treeResult>>

backupVars == <<blobs, manifests, bPc, bLatest, bNew, bOrder, bTodo, bDecided, bPut, bStart, bPrev, runs>>

callVars == <<callOp, callArgs, callResult>>

restoreVars == <<rPc, rManifest, rRoots, rRoot, rTodo, rLog>>

vars == <<csvVars, fsVars, scanVars, clock, treeVars, backupVars, callVars, restoreVars>>

\* what the steps of one part of the program leave alone
notCsv == <<fsVars, scanVars, clock, treeVars, backupVars, callVars, restoreVars>>

notScan == <<csvVars, clock, treeVars, backupVars, callVars, restoreVars>>

notTree == <<csvVars, scanVars, backupVars, callVars, restoreVars>>

notBackup == <<csvVars, fsVars, scanVars, treeVars, callVars, restoreVars>>

notCall == <<csvVars, fsVars, scanVars, clock, treeVars, backupVars, restoreVars>>

notRestore == <<csvVars, fsVars, scanVars, clock, treeVars, backupVars, callVars>>

CsvIdle ==
    /\ csvM = NoManifest
    /\ csvText = <<>>
    /\ csvBack = [err |-> FALSE, value |-> NoManifest]
    /\ csvPc = "idle"

NoScan == [status |-> "none", path |-> <<>>, entries |-> <<>>]

ScanIdle ==
    /\ scanResult = NoScan
    /\ scanSeen = <<>>
    /\ scanCache = <<>>
    /\ hashed = {}
    /\ prevScan = NoScan
    /\ since = "dirty"

FsIdle ==
    /\ fs = <<>>
    /\ lsOrder = <<>>

NoArgs == [op |-> "none", hostname |-> <<>>, user |-> <<>>, paths |-> <<>>, ignored |-> {}]

NoTree == [status |-> "none", manifest |-> NoManifest, scanned |-> <<>>]

TreeIdle ==
    /\ treeArgs = NoArgs
    /\ treeFs = <<>>
    /\ treeResult = NoTree

BackupIdle ==
    /\ blobs = {}
    /\ manifests = <<>>
    /\ bPc = "idle"
    /\ bLatest = NoManifest
    /\ bNew = NoManifest
    /\ bOrder = <<>>
    /\ bTodo = <<>>
    /\ bDecided = <<>>
    /\ bPut = {}
    /\ bStart = [blobs |-> {}, manifests |-> <<>>]
    /\ bPrev = [pc |-> "none", manifest |-> <<>>, put |-> {}]
    /\ runs = 0

\* no call has returned
NoResult == [done |-> FALSE]

CallIdle ==
    /\ callOp = "none"
    /\ callArgs = <<>>
    /\ callResult = NoResult

RestoreIdle ==
    /\ rPc = "idle"
    /\ rManifest = NoManifest
    /\ rRoots = <<>>
    /\ rRoot = 0
    /\ rTodo = <<>>
    /\ rLog = <<>>

(***************************************************************************)
(* SpecCsv: Manifest.to_csv followed by Manifest.from_csv                  *)
(***************************************************************************)
MaxCsvEntries == 2

OwnerName == <<"u">>
GroupName == <<"g">>
FileMode == 436

\* file paths whose names hold the characters the csv dialect treats specially
CsvPaths ==
    { <<SLASH, "a">>, <<SLASH, "b", DELIM>>, <<SLASH, QUOTE, "x">>,
      <<SLASH, "y", LF, "z">>, <<SLASH, "a", CR, "b">> }

CsvStats ==
    { StatInfo(OwnerName, GroupName, FileMode, 7, 7, 20),
      StatInfo(OwnerName, GroupName, FileMode, 12, 15, 65537) }

CsvNames == { name_for(HostName, UserName, 75), <<"n">> }

\* the mappings a Manifest is built with: each entry is keyed by its own path
CsvMappings ==
    UNION { [S -> CsvStats] : S \in { T \in SUBSET CsvPaths : Cardinality(T) <= MaxCsvEntries } }

CsvEntryMap(st) ==
    [p \in DOMAIN st |-> FileEntry(p, ObjectId(p, <<"x">>), st[p])]

CsvInit ==
    /\ csvM \in { Manifest(n, CsvEntryMap(st)) : n \in CsvNames, st \in CsvMappings }
    /\ csvText = <<>>
    /\ csvBack = [err |-> FALSE, value |-> NoManifest]
    /\ csvPc = "built"
    /\ FsIdle
    /\ ScanIdle
    /\ TreeIdle
    /\ BackupIdle
    /\ CallIdle
    /\ RestoreIdle
    /\ clock = 0

CsvWrite ==
    /\ csvPc = "built"
    /\ \E order \in Orders(DOMAIN csvM.manifest) : csvText' = to_csv(csvM, order)
    /\ csvPc' = "written"
    /\ UNCHANGED <<csvM, csvBack, notCsv>>

CsvRead ==
    /\ csvPc = "written"
    /\ csvBack' = from_csv(csvText)
    /\ csvPc' = "read"
    /\ UNCHANGED <<csvM, csvText, notCsv>>

CsvNext == CsvWrite \/ CsvRead

SpecCsv == CsvInit /\ [][CsvNext]_vars

\* C10: for every Manifest M, Manifest.from_csv applied to the output of
\* M.to_csv yields a Manifest equal to M (same name, same path -> FileEntry
\* mapping), whatever the order in which the rows were written.
C10_RoundTrip ==
    csvPc = "read" => (~csvBack.err /\ ManifestEq(csvBack.value, csvM))

(***************************************************************************)
(* SpecScan: one directory is scanned (DirectoryEntry.for_directory), its  *)
(* cache is written (DirectoryEntry.write_cache), and its files and its    *)
(* cache file are changed from outside, in any order.                      *)
(***************************************************************************)
ScanDir == <<SLASH, "r">>

SubDirName == <<"s">>

NameA == <<"a">>
NameB == <<"b">>
NameC == <<"c", CR>>

FileOf(content, mtime, size) ==
    [content |-> content,
     stat |-> StatInfo(OwnerName, GroupName, FileMode, mtime, mtime, size)]

\* the states of the file a: two contents with one StatInfo, a later mtime,
\* another size above the limit, and a size equal to the limit
StatesOfA ==
    { FileOf(<<"x">>, 1, 65537), FileOf(<<"y">>, 1, 65537), FileOf(<<"x">>, 2, 65537),
      FileOf(<<"z">>, 1, 65538), FileOf(<<"d">>, 1, 65536) }

StatesOf(name) ==
    IF name = NameA THEN StatesOfA
    ELSE IF name = NameB THEN { FileOf(<<"x">>, 1, 65537) }
    ELSE { FileOf(<<"y">>, 1, 65538) }

ScanFileNames == {NameA, NameB, NameC}

\* cache files that no scan wrote: a row of two fields, a row whose mode is
\* not a number
MalformedCaches ==
    { TextCache(<<"x", DELIM, "y", LF>>),
      TextCache(<<SLASH, "a", DELIM, "d", DELIM, "u", DELIM, "g", DELIM, "x", DELIM,
                  "1", DELIM, "1", DELIM, "2", LF>>) }

ForeignCaches == {AbsentCache, UnreadableCache} \cup MalformedCaches

\* os.listdir returns the names in no particular order
ListOrders == { <<SubDirName, NameC, CacheName, NameB, NameA>> }

SubDirEntry ==
    [readable |-> TRUE, files |-> (<<"e">> :> FileOf(<<"x">>, 1, 65537)), dirs |-> {},
     cache |-> AbsentCache]

ScanInit ==
    /\ \E present \in SUBSET ScanFileNames :
       \E files \in { f \in [present -> UNION { StatesOf(n) : n \in present }] :
                        \A n \in present : f[n] \in StatesOf(n) } :
       \E cache \in ForeignCaches :
          fs = (ScanDir :> [readable |-> TRUE, files |-> files, dirs |-> {SubDirName},
                            cache |-> cache])
               @@ (PathJoin(ScanDir, SubDirName) :> SubDirEntry)
    /\ lsOrder \in ListOrders
    /\ scanResult = NoScan
    /\ scanSeen = <<>>
    /\ scanCache = <<>>
    /\ hashed = {}
    /\ prevScan = NoScan
    /\ since = "dirty"
    /\ CsvIdle
    /\ TreeIdle
    /\ BackupIdle
    /\ CallIdle
    /\ RestoreIdle
    /\ clock = 0

\* the directory as for_directory is given it: absolute, or relative to the
\* working directory
ScanPaths == { ScanDir, <<"r">> }

\* DirectoryEntry.for_directory(path), the path naming ScanDir
ScanStep ==
    /\ \E r \in { for_directory(fs, lsOrder, given) : given \in ScanPaths } :
          /\ scanResult' = r.result
          /\ scanCache' = r.cache
          /\ hashed' = r.hashed
    /\ scanSeen' = fs[ScanDir].files
    /\ prevScan' = IF since = "written" THEN scanResult ELSE NoScan
    /\ since' = "scanned"
    /\ UNCHANGED <<fsVars, notScan>>

\* entry.write_cache() on the DirectoryEntry the last scan returned
WriteCacheStep ==
    /\ scanResult.status = "ok"
    /\ fs' = write_cache(fs, scanResult)
    /\ since' = IF since = "scanned" THEN "written" ELSE since
    /\ UNCHANGED <<lsOrder, scanResult, scanSeen, scanCache, hashed, prevScan, notScan>>

\* a file of the directory is created, rewritten, touched or deleted
ChangeFile ==
    /\ \E n \in ScanFileNames :
          \/ /\ n \in DOMAIN fs[ScanDir].files
             /\ fs' = [fs EXCEPT ![ScanDir].files =
                          [m \in (DOMAIN @) \ {n} |-> @[m]]]
          \/ \E f \in StatesOf(n) :
                /\ (n \in DOMAIN fs[ScanDir].files => fs[ScanDir].files[n] # f)
                /\ fs' = [fs EXCEPT ![ScanDir].files =
                             [m \in (DOMAIN @) \cup {n} |-> IF m = n THEN f ELSE @[m]]]
    /\ since' = "dirty"
    /\ UNCHANGED <<lsOrder, scanResult, scanSeen, scanCache, hashed, prevScan, notScan>>

\* the cache file is removed, made unreadable or overwritten from outside
TamperCache ==
    /\ \E cache \in ForeignCaches :
          /\ fs[ScanDir].cache # cache
          /\ fs' = [fs EXCEPT ![ScanDir].cache = cache]
    /\ since' = "dirty"
    /\ UNCHANGED <<lsOrder, scanResult, scanSeen, scanCache, hashed, prevScan, notScan>>

ScanNext == ScanStep \/ WriteCacheStep \/ ChangeFile \/ TamperCache

SpecScan == ScanInit /\ [][ScanNext]_vars

\* the entry a scan makes of a file by hashing it
FreshEntry(dir, name, file) ==
    FileEntry(PathJoin(dir, name), ObjectId(PathJoin(dir, name), file.content), file.stat)

\* the DirectoryEntry of a scan that finds no usable cache
FreshScan(fsys, order, dir) ==
    LET names == ScanNames(fsys, order, dir)
    IN DirectoryEntry(dir, [i \in 1..Len(names) |->
                               FreshEntry(dir, names[i], fsys[dir].files[names[i]])])

\* C6: in for_directory a failure to load the cache file (absent, unreadable,
\* malformed) is not fatal: the scan returns freshly hashed entries for every
\* regular file, as with an empty cache.
C6_CacheLoadNonFatal ==
    (since = "scanned" /\ fs[ScanDir].cache \in ForeignCaches)
        => /\ scanResult = FreshScan(fs, lsOrder, ScanDir)
           /\ hashed = { PathJoin(ScanDir, n) : n \in DOMAIN fs[ScanDir].files }

\* C7: a scan, the writing of its cache and a second scan with no file
\* changed give a second DirectoryEntry equal to the first, and the second
\* scan reads the content of no file larger than the cache limit.
C7_RescanIdempotent ==
    (since = "scanned" /\ prevScan.status = "ok")
        => /\ scanResult = prevScan
           /\ \A n \in DOMAIN scanSeen :
                 scanSeen[n].stat[6] > _CACHE_IGNORE_LIMIT
                    => PathJoin(ScanDir, n) \notin hashed

\* the cache loaded by the last scan records for the file n a size other
\* than the size of the file
CachedSizeDiffers(n) ==
    /\ PathJoin(ScanDir, n) \in DOMAIN scanCache
    /\ scanCache[PathJoin(ScanDir, n)].stat_info[6] # scanSeen[n].stat[6]

\* C8: a file whose size differs from the size in its cache entry is never
\* given the cached entry: its content is read and its entry carries the
\* object id of the content it has.
C8_SizeChangeRehashes ==
    scanResult.status = "ok"
        => \A n \in DOMAIN scanSeen :
              CachedSizeDiffers(n)
                 => /\ PathJoin(ScanDir, n) \in hashed
                    /\ \A i \in 1..Len(scanResult.entries) :
                          scanResult.entries[i].path = PathJoin(ScanDir, n)
                             => scanResult.entries[i] = FreshEntry(ScanDir, n, scanSeen[n])
                    /\ \E i \in 1..Len(scanResult.entries) :
                          scanResult.entries[i].path = PathJoin(ScanDir, n)

\* a scan succeeded on a file above the limit whose cache entry has another size
C8_Witness ==
    /\ scanResult.status = "ok"
    /\ \E n \in DOMAIN scanSeen :
          /\ CachedSizeDiffers(n)
          /\ scanSeen[n].stat[6] > _CACHE_IGNORE_LIMIT
          /\ scanCache[PathJoin(ScanDir, n)].stat_info[5] = scanSeen[n].stat[5]

\* C21: after a directory was scanned and its cache written (the two calls of
\* to_directory_entry), the cache file holds exactly the entries of the
\* DirectoryEntry of that scan, one row each, in scan order: the entries taken
\* from the previous cache are carried over, and nothing else of the previous
\* cache file is left (no row of a file that is gone).
C21_CacheOverwritten ==
    since = "written" =>
        /\ fs[ScanDir].cache =
              TextCache(WriteRows([i \in 1..Len(scanResult.entries) |->
                                      as_fields(scanResult.entries[i])]))
        /\ \E r \in {ReadRows(fs[ScanDir].cache.text)} :
              ~r.err =>
                 /\ Len(r.rows) = Cardinality(DOMAIN scanSeen)
                 /\ \A i \in 1..Len(r.rows) :
                       /\ FromFieldsOk(r.rows[i])
                       /\ from_fields(r.rows[i]) = scanResult.entries[i]
                       /\ \E n \in DOMAIN scanSeen : r.rows[i][1] = PathJoin(ScanDir, n)

\* the cache was written after a scan that had loaded a cache with an entry of
\* a file that is gone and had taken the entry of another file from it
C21_Witness ==
    /\ since = "written"
    /\ \E p \in DOMAIN scanCache : \A n \in DOMAIN scanSeen : p # PathJoin(ScanDir, n)
    /\ \E n \in DOMAIN scanSeen :
          /\ PathJoin(ScanDir, n) \in DOMAIN scanCache
          /\ PathJoin(ScanDir, n) \notin hashed
    /\ ~ReadRows(fs[ScanDir].cache.text).err

\* the cache loaded by the last scan holds, under the path of the file n, an
\* entry whose StatInfo equals the StatInfo of the file in all six fields
CachedStatEqual(n) ==
    /\ PathJoin(ScanDir, n) \in DOMAIN scanCache
    /\ \A k \in 1..6 : scanCache[PathJoin(ScanDir, n)].stat_info[k] = scanSeen[n].stat[k]

\* C20: a scan by DirectoryEntry.for_directory gives a file its cached
\* FileEntry, without reading the file, if and only if the size of the file is
\* strictly greater than 65536, the cache has an entry under the absolute path
\* of the file and the StatInfo of that entry equals the live StatInfo in all
\* six fields; in every other case (a size of exactly 65536 among them) it
\* reads the file and gives it a fresh entry with the object id of its content
\* and the live StatInfo.
C20_CachedIffUnchanged ==
    scanResult.status = "ok"
        => \A n \in DOMAIN scanSeen :
              LET path == PathJoin(ScanDir, n)
                  at == { i \in 1..Len(scanResult.entries) :
                            scanResult.entries[i].path = path }
              IN /\ Cardinality(at) = 1
                 /\ \A i \in at :
                       IF scanSeen[n].stat[6] > 65536 /\ CachedStatEqual(n)
                       THEN /\ scanResult.entries[i] = scanCache[path]
                            /\ path \notin hashed
                       ELSE /\ scanResult.entries[i] = FreshEntry(ScanDir, n, scanSeen[n])
                            /\ path \in hashed

\* a scan read again a file of exactly 65536 bytes although its cache entry
\* has the StatInfo of the file, and took from the cache a larger file
C20_Witness ==
    /\ scanResult.status = "ok"
    /\ \E n \in DOMAIN scanSeen :
          /\ scanSeen[n].stat[6] = 65536
          /\ CachedStatEqual(n)
          /\ PathJoin(ScanDir, n) \in hashed
    /\ \E n \in DOMAIN scanSeen :
          /\ scanSeen[n].stat[6] > 65536
          /\ CachedStatEqual(n)
          /\ PathJoin(ScanDir, n) \notin hashed

(***************************************************************************)
(* SpecTree: Manifest.from_filesystem over a tree of directories whose     *)
(* permissions change from outside.                                        *)
(*   /r        a       /r/s     b      /r/s/t   e                          *)
(*   /r/.h     e       /r/i     e                                          *)
(***************************************************************************)
RootDir == <<SLASH, "r">>
DirS == PathJoin(RootDir, <<"s">>)
DirT == PathJoin(DirS, <<"t">>)
DirH == PathJoin(RootDir, <<".", "h">>)
DirI == PathJoin(RootDir, <<"i">>)

TreeDirs == {RootDir, DirS, DirT, DirH, DirI}

DirOf(files, dirs, readable) ==
    [readable |-> readable, files |-> files, dirs |-> dirs, cache |-> AbsentCache]

TreeFs(readable) ==
    (RootDir :> DirOf((<<"a">> :> FileOf(<<"x">>, 1, 65537)),
                      {<<"s">>, <<".", "h">>, <<"i">>}, RootDir \in readable))
    @@ (DirS :> DirOf((<<"b">> :> FileOf(<<"y">>, 1, 65536)), {<<"t">>}, DirS \in readable))
    @@ (DirT :> DirOf((<<"e">> :> FileOf(<<"x">>, 2, 65538)), {}, DirT \in readable))
    @@ (DirH :> DirOf((<<"e">> :> FileOf(<<"z">>, 1, 65537)), {}, DirH \in readable))
    @@ (DirI :> DirOf((<<"e">> :> FileOf(<<"x">>, 1, 65537)), {}, DirI \in readable))

TreeListOrder ==
    <<<<"t">>, <<"s">>, <<"i">>, <<".", "h">>, <<"e">>, CacheName, <<"b">>, <<"a">>>>

\* the arguments from_filesystem is called with
HostNames == {<<>>, HostName}
UserNames == {<<>>, UserName}
RootLists ==
    {<<>>, <<RootDir>>, <<PathJoin(RootDir, <<"a">>)>>, <<DirS, RootDir>>,
     <<DirI, PathJoin(RootDir, <<"a">>)>>, <<DirH>>, <<DirI>>}
IgnoreLists == {{}, {DirI}}

TreeInit ==
    /\ \E readable \in SUBSET TreeDirs : fs = TreeFs(readable)
    /\ lsOrder = TreeListOrder
    /\ clock = 0
    /\ TreeIdle
    /\ BackupIdle
    /\ CallIdle
    /\ RestoreIdle
    /\ ScanIdle
    /\ CsvIdle

\* Manifest.from_filesystem(hostname, user, paths, ignored_directories)
FromFilesystemStep ==
    /\ \E hostname \in HostNames, user \in UserNames, paths \in RootLists,
          ignored \in IgnoreLists :
          \E r \in {from_filesystem(fs, lsOrder, hostname, user, paths, ignored, clock)} :
             /\ treeArgs' = [op |-> "from_filesystem", hostname |-> hostname,
                             user |-> user, paths |-> paths, ignored |-> ignored]
             /\ treeResult' = [status |-> r.status, manifest |-> r.manifest,
                               scanned |-> r.scanned]
             /\ fs' = r.fsys
    /\ treeFs' = fs
    /\ UNCHANGED <<lsOrder, clock, notTree>>

\* chmod of a directory: its listing becomes unreadable, or readable again
\* (the record of the last call is kept until the file system changes)
Chmod ==
    /\ \E d \in TreeDirs : fs' = [fs EXCEPT ![d].readable = ~@]
    /\ treeArgs' = NoArgs
    /\ treeFs' = <<>>
    /\ treeResult' = NoTree
    /\ UNCHANGED <<lsOrder, clock, notTree>>

\* Manifest.from_cache(hostname, user, path), as the test calls it
FromCacheStep ==
    /\ \E path \in {RootDir, DirS, PathJoin(RootDir, <<"a">>)} :
          \E r \in {Manifest_from_cache(fs, lsOrder, HostName, UserName, path, clock)} :
             /\ treeArgs' = [op |-> "from_cache", hostname |-> HostName,
                             user |-> UserName, paths |-> <<path>>, ignored |-> {}]
             /\ treeResult' = [status |-> r.status, manifest |-> r.manifest,
                               scanned |-> <<>>]
    /\ treeFs' = fs
    /\ UNCHANGED <<fs, lsOrder, clock, notTree>>

\* the file a of the root directory is rewritten: other content, same StatInfo
Rewrite ==
    /\ fs[RootDir].files[<<"a">>].content = <<"x">>
    /\ fs' = [fs EXCEPT ![RootDir].files[<<"a">>].content = <<"y">>]
    /\ treeArgs' = NoArgs
    /\ treeFs' = <<>>
    /\ treeResult' = NoTree
    /\ UNCHANGED <<lsOrder, clock, notTree>>

TreeNext == FromFilesystemStep \/ FromCacheStep \/ Chmod \/ Rewrite

SpecTree == TreeInit /\ [][TreeNext]_vars

\* the arguments of the last from_filesystem were acceptable and named the
\* root directory alone
RootCall ==
    /\ treeArgs.op = "from_filesystem"
    /\ treeArgs.hostname # <<>> /\ treeArgs.user # <<>>
    /\ treeArgs.paths = <<RootDir>>

\* C9: when the scan of one subdirectory fails during from_filesystem (its
\* listing is denied), the subdirectory is skipped and the manifest is built
\* from the rest of the tree; the build is not aborted.
C9_SubtreeSkipped ==
    (RootCall /\ treeFs[RootDir].readable /\ ~treeFs[DirS].readable)
        => /\ treeResult.status = "ok"
           /\ PathJoin(RootDir, <<"a">>) \in DOMAIN treeResult.manifest.manifest
           /\ PathJoin(DirS, <<"b">>) \notin DOMAIN treeResult.manifest.manifest

\* the directory that holds directory d of the tree
ParentOf(d) == IF d = DirT THEN DirS ELSE RootDir

\* directory d is the root or is reached from the root through directories
\* whose names do not start with "." and that are not listed in ignored
RECURSIVE ReachedFrom(_, _, _)
ReachedFrom(root, d, ignored) ==
    \/ d = root
    \/ /\ d # RootDir
       /\ Basename(d)[1] # "."
       /\ d \notin ignored
       /\ ReachedFrom(root, ParentOf(d), ignored)

\* C22: the manifest built by from_filesystem has an entry for every regular
\* file of each root and of every directory reached from it through
\* subdirectories that neither start with "." nor are listed in
\* ignored_directories, and for no other file (none in or beneath a hidden or
\* ignored subdirectory); a root is scanned whatever its name.
C22_ManifestCoversTree ==
    (treeArgs.op = "from_filesystem" /\ treeResult.status = "ok") =>
        LET roots == Range(treeArgs.paths)
            reached == { d \in TreeDirs :
                           \E root \in roots : ReachedFrom(root, d, treeArgs.ignored) }
        IN /\ DOMAIN treeResult.manifest.manifest
                = UNION { { PathJoin(d, n) : n \in DOMAIN treeFs[d].files } : d \in reached }
           /\ roots \subseteq Range(treeResult.scanned)
           /\ Range(treeResult.scanned) = reached

\* a manifest was built for the root with /r/i ignored: it holds the file of
\* /r/s/t and neither the file of /r/.h nor the file of /r/i
C22_Witness ==
    /\ treeArgs.op = "from_filesystem"
    /\ treeResult.status = "ok"
    /\ treeArgs.paths = <<RootDir>>
    /\ treeArgs.ignored = {DirI}
    /\ DOMAIN treeResult.manifest.manifest
         = { PathJoin(RootDir, <<"a">>), PathJoin(DirS, <<"b">>), PathJoin(DirT, <<"e">>) }

\* a manifest was built for a root that is hidden, and for a root that is
\* listed in ignored_directories
HiddenRootScanned ==
    /\ treeArgs.op = "from_filesystem"
    /\ treeResult.status = "ok"
    /\ \/ treeArgs.paths = <<DirH>>
       \/ treeArgs.paths = <<DirI>> /\ treeArgs.ignored = {DirI}
    /\ DOMAIN treeResult.manifest.manifest # {}

(***************************************************************************)
(* The bucket and backup                                                   *)
(***************************************************************************)
\* put_archive returning without the archive stored
put_archive_NotStored(keys, manifest_entry) == keys

\* put_archive, when it returns: the archive is stored under the object id
put_archive(keys, manifest_entry) == keys \cup {manifest_entry.object_id}

\* put_manifest storing the text under the bare prefix of the manifest names
put_manifest_AtPrefix(store, manifest, order) ==
    [k \in (DOMAIN store) \cup {name_prefix_for(HostName, UserName)} |->
        IF k = name_prefix_for(HostName, UserName) THEN to_csv(manifest, order)
        ELSE store[k]]

\* put_manifest, when it returns: the csv text is stored under manifest.name
put_manifest(store, manifest, order) ==
    [k \in (DOMAIN store) \cup {manifest.name} |->
        IF k = manifest.name THEN to_csv(manifest, order) ELSE store[k]]

list_manifest_keys(store, hostname, user) ==
    { k \in DOMAIN store : /\ StartsWith(k, name_prefix_for(hostname, user))
                           /\ k # name_prefix_for(hostname, user) }

\* get_manifest as backup is handed it: the manifest stored under the greatest
\* key, or an empty Manifest when there is none; [err, value]
get_manifest(store, hostname, user) ==
    LET keys == list_manifest_keys(store, hostname, user)
    IN IF keys = {} THEN [err |-> FALSE, value |-> Manifest(<<>>, <<>>)]
       ELSE from_csv(store[CHOOSE k \in keys : \A j \in keys : j = k \/ StrLess(j, k)])

\* Manifest(*args): __init__ takes a name and a mapping, any other number of
\* arguments raises TypeError
ManifestInit(args) ==
    IF Len(args) = 2 THEN [err |-> FALSE, value |-> Manifest(args[1], args[2])]
    ELSE [err |-> TRUE, value |-> NoManifest]

\* Manifest.from_csv(*args): from_csv takes the stream alone, any other number
\* of arguments raises TypeError
FromCsvCall(args) ==
    IF Len(args) = 1 THEN from_csv(args[1])
    ELSE [err |-> TRUE, value |-> NoManifest]

\* latest_manifest(bucket, hostname, user): Manifest({}) when there is no key,
\* Manifest.from_csv(csvfile, most_recent_key.name) for the greatest key
latest_manifest(store, hostname, user) ==
    LET keys == list_manifest_keys(store, hostname, user)
    IN IF keys = {} THEN ManifestInit(<< <<>> >>)
       ELSE LET most_recent_key == CHOOSE k \in keys : \A j \in keys : j = k \/ StrLess(j, k)
            IN FromCsvCall(<<store[most_recent_key], most_recent_key>>)

\* needs_put answering from the checksums alone, the bucket never asked
needs_put_NoStoreCheck(keys, entry, new_entry) ==
    checksum_differs(entry, new_entry) \/ checksum_differs(new_entry, entry)

\* needs_put asking the bucket for the object id of the latest manifest's entry
needs_put_LatestId(keys, entry, new_entry) ==
    /\ checksum_differs(entry, new_entry) \/ checksum_differs(new_entry, entry)
    /\ new_entry.object_id \notin keys

\* needs_put(bucket, entry, new_entry); backup passes the entry of the new
\* manifest as entry and latest_manifest[path] as new_entry
needs_put(keys, entry, new_entry) ==
    /\ checksum_differs(entry, new_entry) \/ checksum_differs(new_entry, entry)
    /\ entry.object_id \notin keys

\* backup reaching put_manifest with paths still to take
LoopDone_Early(todo) == TRUE

\* backup: the for loop over new_manifest is exhausted
LoopDone(todo) == todo = <<>>

(***************************************************************************)
(* SpecBackup: runs of backup against one bucket. Between runs the files   *)
(* under the backup roots change and the clock moves on or stands still.   *)
(***************************************************************************)
MaxRuns == 2

BackupPaths == { PathJoin(RootDir, <<"a">>), PathJoin(DirS, <<"a">>) }

\* what a run may find at each path: /r/a changes its content or its mtime,
\* /r/s/a has the name and the content of one of them
BackupFiles ==
    (PathJoin(RootDir, <<"a">>) :>
        { FileOf(<<"x">>, 1, 65537), FileOf(<<"y">>, 1, 65537), FileOf(<<"x">>, 2, 65537) })
    @@ (PathJoin(DirS, <<"a">>) :> { FileOf(<<"x">>, 1, 65537) })

\* the files a run finds under the backup roots: path -> [content, stat]
BackupFound ==
    UNION { { f \in [S -> UNION { BackupFiles[p] : p \in S }] :
                \A p \in S : f[p] \in BackupFiles[p] } : S \in SUBSET BackupPaths }

\* create_manifest at clock value t over the files found: path -> [content, stat]
create_manifest(found, t) ==
    Manifest(name_for(HostName, UserName, t),
             [p \in DOMAIN found |->
                 FileEntry(p, ObjectId(p, found[p].content), found[p].stat)])

BackupInit ==
    /\ BackupIdle
    /\ CallIdle
    /\ RestoreIdle
    /\ clock = 0
    /\ CsvIdle
    /\ FsIdle
    /\ ScanIdle
    /\ TreeIdle

\* what every step that begins a run does
BeginRun(t) ==
    /\ bPc = "idle"
    /\ runs < MaxRuns
    /\ runs' = runs + 1
    /\ clock' = t
    /\ bStart' = [blobs |-> blobs, manifests |-> manifests]
    /\ bDecided' = <<>>
    /\ bPut' = {}
    /\ UNCHANGED <<blobs, manifests, bPrev, notBackup>>

\* backup: get_manifest raises (the bucket cannot be reached, or the stored
\* text cannot be read back)
BackupGetFails ==
    /\ BeginRun(clock)
    /\ bPc' = "get_failed"
    /\ bLatest' = NoManifest
    /\ bNew' = NoManifest
    /\ bOrder' = <<>>
    /\ bTodo' = <<>>

\* backup up to the for loop: get_manifest, create_manifest, the comparison
BackupBegin ==
    \E latest \in {get_manifest(manifests, HostName, UserName)} :
       /\ ~latest.err
       /\ bLatest' = latest.value
       /\ \E t \in {clock, clock + 1}, found \in BackupFound :
          \E order \in Orders(DOMAIN found) :
             /\ BeginRun(t)
             /\ bNew' = create_manifest(found, t)
             /\ bOrder' = order
             /\ IF ManifestEq(create_manifest(found, t), latest.value)
                THEN bPc' = "nochange" /\ bTodo' = <<>>
                ELSE bPc' = "loop" /\ bTodo' = order

\* what needs_put answers for the path, with what the bucket holds at the time
Decision(path) ==
    [held |-> bNew.manifest[path].object_id \in blobs,
     needs |-> needs_put(blobs, bNew.manifest[path], GetItem(bLatest, path))]

\* one turn of the for loop takes the next path and records the answer
TakePath(path) ==
    /\ bTodo' = Tail(bTodo)
    /\ bDecided' = [q \in (DOMAIN bDecided) \cup {path} |->
                       IF q = path THEN Decision(path) ELSE bDecided[q]]
    /\ UNCHANGED <<manifests, bLatest, bNew, bOrder, bStart, bPrev, runs, clock, notBackup>>

\* backup loop: needs_put is false, the path is not put
BackupSkip ==
    \E path \in {bTodo[i] : i \in {1} \cap DOMAIN bTodo} :
       /\ bPc = "loop"
       /\ TakePath(path)
       /\ ~Decision(path).needs
       /\ UNCHANGED <<blobs, bPut, bPc>>

\* backup loop: needs_put is true and put_archive returns
BackupPut ==
    \E path \in {bTodo[i] : i \in {1} \cap DOMAIN bTodo} :
       /\ bPc = "loop"
       /\ TakePath(path)
       /\ Decision(path).needs
       /\ blobs' = put_archive(blobs, bNew.manifest[path])
       /\ bPut' = bPut \cup {path}
       /\ UNCHANGED bPc

\* backup loop: needs_put is true and put_archive raises, which ends the run
BackupPutFails ==
    \E path \in {bTodo[i] : i \in {1} \cap DOMAIN bTodo} :
       /\ bPc = "loop"
       /\ TakePath(path)
       /\ Decision(path).needs
       /\ bPc' = "put_failed"
       /\ UNCHANGED <<blobs, bPut>>

\* backup after the loop: put_manifest(new_manifest) returns
BackupPutManifest ==
    /\ bPc = "loop"
    /\ LoopDone(bTodo)
    /\ manifests' = put_manifest(manifests, bNew, bOrder)
    /\ bPc' = "done"
    /\ UNCHANGED <<blobs, bLatest, bNew, bOrder, bTodo, bDecided, bPut, bStart, bPrev, runs,
                   clock, notBackup>>

\* backup after the loop: put_manifest(new_manifest) raises
BackupPutManifestFails ==
    /\ bPc = "loop"
    /\ LoopDone(bTodo)
    /\ bPc' = "persist_failed"
    /\ UNCHANGED <<blobs, manifests, bLatest, bNew, bOrder, bTodo, bDecided, bPut, bStart, bPrev,
                   runs, clock, notBackup>>

\* backup returns or its exception ends the process: nothing of the run is
\* left but what it stored in the bucket
BackupReturn ==
    /\ bPc \in {"done", "nochange", "get_failed", "put_failed", "persist_failed"}
    /\ bPc' = "idle"
    /\ bLatest' = NoManifest
    /\ bNew' = NoManifest
    /\ bOrder' = <<>>
    /\ bTodo' = <<>>
    /\ bDecided' = <<>>
    /\ bPut' = {}
    /\ bStart' = [blobs |-> {}, manifests |-> <<>>]
    /\ bPrev' = [pc |-> bPc, manifest |-> bNew.manifest,
                 put |-> { bNew.manifest[p].object_id : p \in bPut }]
    /\ UNCHANGED <<blobs, manifests, runs, clock, notBackup>>

\* the steps of a run that has begun
BackupRun ==
    \/ BackupSkip
    \/ BackupPut
    \/ BackupPutFails
    \/ BackupPutManifest
    \/ BackupPutManifestFails

BackupNext == BackupGetFails \/ BackupBegin \/ BackupRun \/ BackupReturn

SpecBackup == BackupInit /\ [][BackupNext]_vars

\* backup is sequential code: a run that has begun goes on to its end
SpecBackupFair == SpecBackup /\ WF_vars(BackupRun)

\* put_manifest was called in the run: it returned or it raised
PutManifestCalled == bPc \in {"done", "persist_failed"}

\* the checksum comparison of needs_put for the path
ChecksumsDiffer(path) ==
    \/ checksum_differs(GetItem(bLatest, path), bNew.manifest[path])
    \/ checksum_differs(bNew.manifest[path], GetItem(bLatest, path))

\* C1: backup calls put_manifest only after put_archive has returned for every
\* path of the new manifest for which needs_put was true; when a put_archive
\* fails, the run stores no manifest.
C1_PersistAfterPuts ==
    /\ (PutManifestCalled \/ manifests # bStart.manifests)
          => /\ DOMAIN bDecided = DOMAIN bNew.manifest
             /\ \A p \in DOMAIN bDecided : bDecided[p].needs => p \in bPut
    /\ bPc = "put_failed" => manifests = bStart.manifests

\* the manifest was stored after at least one archive was put
C1_Witness == bPc = "done" /\ bPut # {} /\ manifests # bStart.manifests

\* C2: when the new manifest equals the latest one (same name, same entries),
\* backup puts no archive and stores no manifest.
C2_EqualShortCircuit ==
    (bPc \notin {"idle", "get_failed"}
        /\ bNew.name = bLatest.name /\ bNew.manifest = bLatest.manifest)
       => /\ bPc = "nochange"
          /\ bDecided = <<>>
          /\ bPut = {}
          /\ blobs = bStart.blobs
          /\ manifests = bStart.manifests

\* a run found the new manifest, which has entries, equal to the latest one
C2_Witness ==
    /\ bPc = "nochange"
    /\ bNew = bLatest
    /\ DOMAIN bNew.manifest # {}

\* C3: a path of the new manifest is put exactly when the checksums of its old
\* and new entry differ (asked either way round) and the bucket holds nothing
\* under the new entry's object id; a finished loop has decided every path.
C3_UploadIff ==
    /\ \A p \in DOMAIN bDecided :
          /\ bDecided[p].needs <=> (ChecksumsDiffer(p) /\ ~bDecided[p].held)
          /\ p \in bPut => bDecided[p].needs
          /\ bDecided[p].needs => (p \in bPut \/ bPc = "put_failed")
    /\ PutManifestCalled => DOMAIN bDecided = DOMAIN bNew.manifest

\* one path was put, another with a differing checksum was not, its object id
\* being held already
C3_Witness ==
    \E p, q \in DOMAIN bDecided :
       /\ p \in bPut
       /\ ChecksumsDiffer(q) /\ bDecided[q].held /\ q \notin bPut

\* C4 as stated: a path of the new manifest that the latest manifest lacks is
\* always treated as needing upload.
C4_AbsentAlwaysUploaded ==
    \A p \in DOMAIN bDecided :
       p \notin DOMAIN bLatest.manifest => bDecided[p].needs

\* C4: for a path of the new manifest that the latest manifest lacks the
\* checksum comparison reports a difference either way round, and the path is
\* put exactly when the bucket holds nothing under its object id.
C4_AbsentUploadedUnlessHeld ==
    \A p \in DOMAIN bDecided :
       p \notin DOMAIN bLatest.manifest
          => /\ checksum_differs(GetItem(bLatest, p), bNew.manifest[p])
             /\ checksum_differs(bNew.manifest[p], GetItem(bLatest, p))
             /\ bDecided[p].needs <=> ~bDecided[p].held

\* a path the latest manifest lacks was not put: its object id was held
C4_Witness ==
    \E p \in DOMAIN bDecided :
       /\ p \notin DOMAIN bLatest.manifest
       /\ bDecided[p].held
       /\ ~bDecided[p].needs

\* the new manifest is stored under its own name, every path decided
PersistedNew ==
    /\ bPc = "done"
    /\ DOMAIN bDecided = DOMAIN bNew.manifest
    /\ bNew.name \in DOMAIN manifests
    /\ manifests[bNew.name] = to_csv(bNew, bOrder)

CallOps == {"getitem", "checksum_differs", "fmap", "iter", "object_id", "latest_manifest",
            "for_directory"}

\* buckets: empty, holding the bare prefix key alone, and holding manifests of
\* the user put at two times, with the bare prefix key or another user's
\* later manifest beside them
CallStores ==
    LET named(user, t) ==
            Manifest(name_for(HostName, user, t),
                     CsvEntryMap((<<SLASH, "a">> :>
                                    StatInfo(OwnerName, GroupName, FileMode, t, t, 20))))
        put(store, user, t) == put_manifest(store, named(user, t), << <<SLASH, "a">> >>)
        bare == (name_prefix_for(HostName, UserName) :> <<>>)
    IN { <<>>, bare,
         put(<<>>, UserName, 5),
         put(put(<<>>, UserName, 5), UserName, 75),
         put(put(bare, UserName, 75), UserName, 5),
         put(put(<<>>, UserName, 5), <<"v">>, 75) }


\* the most nodes a tree drawn by Init has
MaxNodes == 4

\* the trees of n nodes and the forests (lists of children) of k nodes, every
\* node valued 1 or 2
RECURSIVE TreesOfSize(_), ForestsOfSize(_)
TreesOfSize(n) == { Tree(v, cs) : v \in {1, 2}, cs \in ForestsOfSize(n - 1) }

ForestsOfSize(k) ==
    IF k = 0 THEN { <<>> }
    ELSE UNION { { <<t>> \o f : t \in TreesOfSize(j), f \in ForestsOfSize(k - j) } :
                 j \in 1..k }

\* the tree of test_fmap and test_iteration
TestTree ==
    Tree(1, << Tree(2, << Tree(3, <<>>), Tree(4, <<>>) >>),
               Tree(5, << Tree(6, << Tree(7, <<>>) >>) >>) >>)

CallTrees == { TestTree } \cup UNION { TreesOfSize(n) : n \in 1..MaxNodes }

\* object ids as the tests write them, with and without a "/": two that share
\* the last segment only, two that share the first segment only, one that is
\* its own last segment, one whose last segment is empty
CallObjectIds ==
    { <<"d", SLASH, "a", SLASH, "x">>, <<"d", SLASH, "b", SLASH, "x">>,
      <<"d", SLASH, "a", SLASH, "y">>, <<"x">>, <<"x", "y">>, <<"d", SLASH>> }

\* the receiver and the arguments of a call of each method:
\*   getitem  a manifest SpecCsv writes (the empty one among them), and a path:
\*            one a manifest may hold, or one of two it never holds
\*   checksum_differs  two entries, each a FileEntry or the NullFileEntry
\*   fmap     a tree, and the function of the test (x*2) or a constant one
\*   iter     a tree
\*   object_id  two files, each a path and a content (one content empty, one
\*            equal to a basename)
\*   latest_manifest  a bucket, the hostname and a user
\*   for_directory  a file system (a directory with any of four regular files,
\*            a subdirectory with a file, with or without a cache file of an
\*            earlier scan), an order of os.listdir, and a path: the directory,
\*            the subdirectory, a regular file or a missing path
CallArgsOf(op) ==
    CASE op = "getitem" ->
            { Manifest(n, CsvEntryMap(st)) : n \in CsvNames, st \in CsvMappings }
            \X (CsvPaths \cup { <<SLASH, "n", "o">>, <<>> })
      [] op = "checksum_differs" ->
            LET entries == { FileEntry(p, o, st) :
                                p \in { <<SLASH, "a">>, <<SLASH, "b">> },
                                o \in CallObjectIds, st \in CsvStats }
                              \cup { NullFileEntry }
            IN entries \X entries
      [] op = "fmap" ->
            CallTrees \X { [v \in 1..7 |-> 2 * v], [v \in 1..7 |-> 0] }
      [] op = "iter" -> { <<t>> : t \in CallTrees }
      [] op = "object_id" ->
            LET files == { <<SLASH, "a">>, <<SLASH, "s", SLASH, "a">>, <<SLASH, "b">>,
                           <<SLASH, "s", SLASH, "a", "b">> }
                         \X { <<>>, <<"x">>, <<"y">>, <<"x", "y">>, <<"a">> }
            IN files \X files
      [] op = "latest_manifest" -> CallStores \X {HostName} \X {UserName, <<"w">>}
      [] op = "for_directory" ->
            LET file == FileOf(<<"x">>, 1, 20)
                sub == PathJoin(ScanDir, SubDirName)
                dir(names, cache) ==
                    (ScanDir :> [readable |-> TRUE, files |-> [n \in names |-> file],
                                 dirs |-> {SubDirName}, cache |-> cache])
                    @@ (sub :> SubDirEntry)
                fsys(names, cached) ==
                    IF cached
                    THEN write_cache(dir(names, AbsentCache),
                                     DirectoryEntry(ScanDir, << FreshEntry(ScanDir, <<"g">>, file) >>))
                    ELSE dir(names, AbsentCache)
            IN { fsys(names, cached) :
                    names \in SUBSET { <<"a">>, <<"a", "b">>, <<"b">>, <<".", "h">> },
                    cached \in BOOLEAN }
               \X { << <<"b">>, SubDirName, <<"a", "b">>, CacheName, <<"e">>, <<"a">>, <<".", "h">> >>,
                    << <<"a">>, <<"a", "b">>, <<".", "h">>, <<"b">>, <<"e">>, CacheName, SubDirName >> }
               \X { ScanDir, sub, PathJoin(ScanDir, <<"a">>), <<SLASH, "q">> }

\* what a call returned: its value, and the receiver as the call left it
Returned(value, self) == [done |-> TRUE, value |-> value, self |-> self]

CallInit ==
    /\ callOp \in CallOps
    /\ callArgs \in CallArgsOf(callOp)
    /\ callResult = NoResult
    /\ CsvIdle
    /\ FsIdle
    /\ ScanIdle
    /\ TreeIdle
    /\ BackupIdle
    /\ RestoreIdle
    /\ clock = 0

\* manifest[item]
GetItemCall ==
    /\ callOp = "getitem"
    /\ ~callResult.done
    /\ callResult' = Returned(GetItem(callArgs[1], callArgs[2]), callArgs[1])
    /\ UNCHANGED <<callOp, callArgs, notCall>>

\* a.checksum_differs(b) and b.checksum_differs(a), as the test calls them
ChecksumDiffersCall ==
    /\ callOp = "checksum_differs"
    /\ ~callResult.done
    /\ callResult' = Returned(<<checksum_differs(callArgs[1], callArgs[2]),
                                checksum_differs(callArgs[2], callArgs[1])>>,
                              callArgs[1])
    /\ UNCHANGED <<callOp, callArgs, notCall>>

\* t.fmap(f)
FmapCall ==
    /\ callOp = "fmap"
    /\ ~callResult.done
    /\ callResult' = Returned(fmap(callArgs[1], callArgs[2]), callArgs[1])
    /\ UNCHANGED <<callOp, callArgs, notCall>>

\* list(t), twice
IterCall ==
    /\ callOp = "iter"
    /\ ~callResult.done
    /\ callResult' = Returned(<<TreeIter(callArgs[1]), TreeIter(callArgs[1])>>,
                              callArgs[1])
    /\ UNCHANGED <<callOp, callArgs, notCall>>

\* DirectoryEntry._object_id(path) of two files
ObjectIdCall ==
    /\ callOp = "object_id"
    /\ ~callResult.done
    /\ callResult' = Returned(<<ObjectId(callArgs[1][1], callArgs[1][2]),
                                ObjectId(callArgs[2][1], callArgs[2][2])>>,
                              callArgs[1])
    /\ UNCHANGED <<callOp, callArgs, notCall>>

\* latest_manifest(bucket, hostname, user)
LatestManifestCall ==
    /\ callOp = "latest_manifest"
    /\ ~callResult.done
    /\ callResult' = Returned(latest_manifest(callArgs[1], callArgs[2], callArgs[3]),
                              callArgs[1])
    /\ UNCHANGED <<callOp, callArgs, notCall>>

\* DirectoryEntry.for_directory(path)
ForDirectoryCall ==
    /\ callOp = "for_directory"
    /\ ~callResult.done
    /\ callResult' = Returned(for_directory(callArgs[1], callArgs[2], callArgs[3]).result,
                              callArgs[1])
    /\ UNCHANGED <<callOp, callArgs, notCall>>

CallNext ==
    \/ GetItemCall
    \/ ChecksumDiffersCall
    \/ FmapCall
    \/ IterCall
    \/ ObjectIdCall
    \/ LatestManifestCall
    \/ ForDirectoryCall

SpecCalls == CallInit /\ [][CallNext]_vars

(***************************************************************************)
(* SpecRestore: restore(restore_roots, get_archive, restore_archive,       *)
(* get_manifest), one step per call it makes                               *)
(***************************************************************************)
\* the manifests get_manifest returns: any of three files, one of them under
\* a directory whose name begins with the name of the directory r
RestoreManifests ==
    { Manifest(name_for(HostName, UserName, 5),
               [p \in S |-> FileEntry(p, ObjectId(p, <<"x">>),
                                      StatInfo(OwnerName, GroupName, FileMode, 1, 1, 20))]) :
      S \in SUBSET { <<SLASH, "r", SLASH, "a">>, <<SLASH, "r", SLASH, "s", SLASH, "b">>,
                     <<SLASH, "r", "2", SLASH, "c">> } }

\* restore_roots: up to two of /r, /r/, /r/s, the relative r and /q
RestoreRootLists ==
    LET roots == { <<SLASH, "r">>, <<SLASH, "r", SLASH>>, <<SLASH, "r", SLASH, "s">>,
                   <<"r">>, <<SLASH, "q">> }
    IN { <<>> } \cup { <<a>> : a \in roots } \cup { <<a, b>> : a \in roots, b \in roots }

RestoreInit ==
    /\ RestoreIdle
    /\ BackupIdle
    /\ CallIdle
    /\ CsvIdle
    /\ FsIdle
    /\ ScanIdle
    /\ TreeIdle
    /\ clock = 0

\* a call made for root number root
Logged(op, root, arg) == [op |-> op, root |-> root, arg |-> arg]

\* restore: get_manifest returns
RestoreBegin ==
    /\ rPc = "idle"
    /\ rManifest' \in RestoreManifests
    /\ rRoots' \in RestoreRootLists
    /\ rPc' = "roots"
    /\ UNCHANGED <<rRoot, rTodo, rLog, notRestore>>

\* restore: the next directory of restore_roots is taken: abspath, makedirs,
\* and the generator of the manifest paths that start with the path (the
\* manifest is iterated in the order of its dict)
RestoreRoot ==
    /\ rPc = "roots"
    /\ rTodo = <<>>
    /\ rRoot < Len(rRoots)
    /\ \E path \in {abspath(rRoots[rRoot + 1])} :
          /\ rLog' = Append(rLog, Logged("makedirs", rRoot + 1, path))
          /\ rTodo' \in Orders({ f \in DOMAIN rManifest.manifest : StartsWith(f, path) })
    /\ rRoot' = rRoot + 1
    /\ UNCHANGED <<rPc, rManifest, rRoots, notRestore>>

\* restore: get_archive(manifest[file_path]) returns
RestoreGet ==
    /\ rPc = "roots"
    /\ rTodo # <<>>
    /\ rLog' = Append(rLog, Logged("get_archive", rRoot,
                                   GetItem(rManifest, Head(rTodo)).object_id))
    /\ rPc' = "fetched"
    /\ UNCHANGED <<rManifest, rRoots, rRoot, rTodo, notRestore>>

\* restore: restore_archive(file_path, archive) returns
RestoreArchive ==
    /\ rPc = "fetched"
    /\ rLog' = Append(rLog, Logged("restore_archive", rRoot, Head(rTodo)))
    /\ rTodo' = Tail(rTodo)
    /\ rPc' = "roots"
    /\ UNCHANGED <<rManifest, rRoots, rRoot, notRestore>>

\* restore: get_manifest, makedirs, get_archive or restore_archive raises,
\* which ends the run
RestoreRaises ==
    /\ rPc \in {"idle", "roots", "fetched"}
    /\ rPc = "roots" => (rTodo # <<>> \/ rRoot < Len(rRoots))
    /\ rPc' = "failed"
    /\ UNCHANGED <<rManifest, rRoots, rRoot, rTodo, rLog, notRestore>>

\* restore: restore_roots is exhausted
RestoreReturn ==
    /\ rPc = "roots"
    /\ rTodo = <<>>
    /\ rRoot = Len(rRoots)
    /\ rPc' = "done"
    /\ UNCHANGED <<rManifest, rRoots, rRoot, rTodo, rLog, notRestore>>

RestoreNext ==
    \/ RestoreBegin
    \/ RestoreRoot
    \/ RestoreGet
    \/ RestoreArchive
    \/ RestoreRaises
    \/ RestoreReturn

SpecRestore == RestoreInit /\ [][RestoreNext]_vars

\* the paths restore_archive was called with for root number i, in order
RECURSIVE RestoredFor(_, _)
RestoredFor(log, i) ==
    IF log = <<>> THEN <<>>
    ELSE (IF Head(log).op = "restore_archive" /\ Head(log).root = i
          THEN <<Head(log).arg>> ELSE <<>>) \o RestoredFor(Tail(log), i)

\* every get_archive is of the object id of the path that is restored next,
\* before anything else is fetched, and nothing is restored that was not
\* fetched just before
FetchThenWrite ==
    \A k \in 1..Len(rLog) :
       /\ rLog[k].op = "get_archive" =>
             \/ k = Len(rLog) /\ rPc \in {"fetched", "failed"}
             \/ /\ k < Len(rLog)
                /\ rLog[k + 1].op = "restore_archive"
                /\ rLog[k + 1].root = rLog[k].root
                /\ rLog[k].arg = rManifest.manifest[rLog[k + 1].arg].object_id
       /\ rLog[k].op = "restore_archive" => (k > 1 /\ rLog[k - 1].op = "get_archive")

\* C19: restore, for each requested root, fetches and restores exactly the
\* manifest paths that have that root as prefix, and no other path; for each
\* such path the blob named by the object id of its entry is fetched and then
\* written to that same path before the next path is fetched.
C19_RestoreExactlyPrefixed ==
    /\ FetchThenWrite
    /\ rPc = "done" =>
          \A i \in 1..Len(rRoots) :
             LET restored == RestoredFor(rLog, i)
                 prefixed == { f \in DOMAIN rManifest.manifest : StartsWith(f, rRoots[i]) }
             IN /\ Range(restored) = prefixed
                /\ Len(restored) = Cardinality(prefixed)

\* what restore does: the paths restored for a root are those that begin with
\* the characters of os.path.abspath(root)
RestoresAbspathPrefixed ==
    /\ FetchThenWrite
    /\ rPc = "done" =>
          \A i \in 1..Len(rRoots) :
             LET restored == RestoredFor(rLog, i)
                 prefixed == { f \in DOMAIN rManifest.manifest :
                                 StartsWith(f, abspath(rRoots[i])) }
             IN /\ Range(restored) = prefixed
                /\ Len(restored) = Cardinality(prefixed)

\* the root /r/ was requested and the file /r2/c was restored
RestoredOutsideRoot ==
    /\ rPc = "done"
    /\ rRoots = << <<SLASH, "r", SLASH>> >>
    /\ RestoredFor(rLog, 1) = << <<SLASH, "r", "2", SLASH, "c">> >>

\* C11: looking up a path in a Manifest never fails: a path of the mapping
\* gives its FileEntry, any other path gives the sentinel absent entry, and
\* the mapping of the manifest is what it was before the lookup.
C11_LookupNeverFails ==
    (callOp = "getitem" /\ callResult.done) =>
        LET m == callArgs[1]
            item == callArgs[2]
        IN /\ callResult.value.kind \in {"file", "null"}
           /\ item \in DOMAIN m.manifest => callResult.value = m.manifest[item]
           /\ item \notin DOMAIN m.manifest => callResult.value = NullFileEntry
           /\ callResult.self = m

\* a path a non-empty manifest lacks was looked up and gave the sentinel
C11_Witness ==
    /\ callOp = "getitem"
    /\ callResult.done
    /\ DOMAIN callArgs[1].manifest # {}
    /\ callArgs[2] \notin DOMAIN callArgs[1].manifest
    /\ callResult.value = NullFileEntry

\* C12: for two real entries a and b, a.checksum_differs(b) equals
\* b.checksum_differs(a) and is true exactly when the last segments of their
\* object ids differ; for the sentinel and a real entry, both calls are true.
C12_ChecksumDiffers ==
    (callOp = "checksum_differs" /\ callResult.done) =>
        LET a == callArgs[1]
            b == callArgs[2]
            ab == callResult.value[1]
            ba == callResult.value[2]
        IN /\ (a.kind = "file" /\ b.kind = "file") =>
                  /\ ab = ba
                  /\ ab <=> (Basename(a.object_id) # Basename(b.object_id))
           /\ (a.kind = "null" /\ b.kind = "file") => (ab /\ ba)
           /\ (a.kind = "file" /\ b.kind = "null") => (ab /\ ba)

\* two real entries whose object ids differ in the first segment alone were
\* compared and do not differ
C12_Witness ==
    /\ callOp = "checksum_differs"
    /\ callResult.done
    /\ callArgs[1].kind = "file" /\ callArgs[2].kind = "file"
    /\ callArgs[1].object_id # callArgs[2].object_id
    /\ Basename(callArgs[1].object_id) = Basename(callArgs[2].object_id)
    /\ callResult.value = <<FALSE, FALSE>>

\* C13: Manifest.from_filesystem fails when hostname is empty, when user is
\* empty, when there are no roots, or when a root does not name a directory; in
\* the first three cases no directory was scanned and no cache file was written
\* when it fails.
C13_ArgumentsChecked ==
    treeArgs.op = "from_filesystem" =>
        /\ (treeArgs.hostname = <<>> \/ treeArgs.user = <<>> \/ treeArgs.paths = <<>>) =>
              /\ treeResult.status = "error"
              /\ treeResult.scanned = <<>>
              /\ fs = treeFs
        /\ (\E i \in 1..Len(treeArgs.paths) : ~IsDir(treeFs, treeArgs.paths[i])) =>
              treeResult.status = "error"

\* a call with an empty hostname and a root that could have been scanned
\* failed, leaving every cache file absent
C13_Witness ==
    /\ treeArgs.op = "from_filesystem"
    /\ treeResult.status = "error"
    /\ treeArgs.hostname = <<>>
    /\ treeArgs.user # <<>>
    /\ treeArgs.paths = <<RootDir>>
    /\ \A d \in TreeDirs : treeFs[d].readable /\ fs[d].cache = AbsentCache

\* a call whose second root is a file failed after it had scanned the first
\* root and written its cache
FailedAfterScan ==
    /\ treeArgs.op = "from_filesystem"
    /\ treeResult.status = "error"
    /\ treeArgs.hostname # <<>> /\ treeArgs.user # <<>>
    /\ Len(treeArgs.paths) = 2
    /\ ~IsDir(treeFs, treeArgs.paths[2])
    /\ treeResult.scanned # <<>>
    /\ fs # treeFs

\* the entries the cache file of directory d records
CacheEntries(fsys, d) ==
    LET rows == ReadRows(fsys[d].cache.text).rows
    IN { from_fields(rows[i]) : i \in 1..Len(rows) }

\* Manifest.from_cache was called for the root directory
RootFromCache == treeArgs.op = "from_cache" /\ treeArgs.paths = <<RootDir>>

FromCacheFailed ==
    /\ RootFromCache
    /\ treeResult.status = "error"
    /\ \A d \in TreeDirs : treeFs[d].readable
    /\ treeFs[RootDir].cache.state = "text"
    /\ treeFs[DirI].cache.state = "absent"

\* the addresses of the nodes of a tree: the empty sequence for the root, the
\* address of a node followed by i for its i-th child
RECURSIVE Addresses(_)
Addresses(t) ==
    { <<>> } \cup UNION { { <<i>> \o a : a \in Addresses(t.children[i]) } :
                          i \in 1..Len(t.children) }

\* the node of tree t at address a
RECURSIVE NodeAt(_, _)
NodeAt(t, a) == IF a = <<>> THEN t ELSE NodeAt(t.children[Head(a)], Tail(a))

\* C15: Tree.fmap(f) returns a tree of exactly the same shape (the same number
\* and order of children at every node) in which the value v of every node is
\* replaced by f(v), and leaves the original tree unchanged.
C15_FmapShape ==
    (callOp = "fmap" /\ callResult.done) =>
        LET t == callArgs[1]
            f == callArgs[2]
            u == callResult.value
        IN /\ Addresses(u) = Addresses(t)
           /\ \A a \in Addresses(t) :
                 /\ NodeAt(u, a).value = f[NodeAt(t, a).value]
                 /\ Len(NodeAt(u, a).children) = Len(NodeAt(t, a).children)
           /\ callResult.self = t

\* the tree of the test was mapped with x*2: its deepest node holds 14
C15_Witness ==
    /\ callOp = "fmap"
    /\ callResult.done
    /\ callArgs[1] = TestTree
    /\ NodeAt(callResult.value, <<2, 1, 1>>).value = 14

\* address a comes before address b in pre-order: a is a proper prefix of b,
\* or at the first place where they differ a has the smaller index
Before(a, b) ==
    \/ Len(a) < Len(b) /\ SubSeq(b, 1, Len(a)) = a
    \/ \E k \in 1..Len(a) :
          /\ k <= Len(b)
          /\ SubSeq(a, 1, k - 1) = SubSeq(b, 1, k - 1)
          /\ a[k] < b[k]

\* C16: iterating a Tree yields the value of every node exactly once, a node
\* before all of its descendants and siblings in the order of children
\* (pre-order), and iterating the same tree again yields the same sequence.
C16_PreOrder ==
    (callOp = "iter" /\ callResult.done) =>
        LET t == callArgs[1]
            first == callResult.value[1]
            again == callResult.value[2]
            nodes == Addresses(t)
        IN /\ Len(first) = Cardinality(nodes)
           /\ \A a \in nodes :
                 first[Cardinality({ b \in nodes : Before(b, a) }) + 1] = NodeAt(t, a).value
           /\ again = first
           /\ callResult.self = t

\* the tree of the test was iterated: a grandchild of the first child comes
\* before the second child
C16_Witness ==
    /\ callOp = "iter"
    /\ callResult.done
    /\ callArgs[1] = TestTree
    /\ callResult.value[1] = <<1, 2, 3, 4, 5, 6, 7>>

\* the first segment of an object id "data/{first}/{last}"
FirstSegment(id) == SubSeq(id, 6, LastSlash(id, Len(id)) - 1)

\* C17: two freshly hashed files get equal object ids if and only if they have
\* the same basename and the same content; the same content under different
\* basenames gives object ids that differ in the first segment and have the
\* same last segment (checksum).
C17_ObjectIdDedup ==
    (callOp = "object_id" /\ callResult.done) =>
        LET p1 == callArgs[1][1]
            c1 == callArgs[1][2]
            p2 == callArgs[2][1]
            c2 == callArgs[2][2]
            id1 == callResult.value[1]
            id2 == callResult.value[2]
        IN /\ (id1 = id2) <=> (Basename(p1) = Basename(p2) /\ c1 = c2)
           /\ (c1 = c2 /\ Basename(p1) # Basename(p2)) =>
                 /\ FirstSegment(id1) # FirstSegment(id2)
                 /\ Basename(id1) = Basename(id2)

\* two files of different directories with one basename and one content got
\* one object id
C17_Witness ==
    /\ callOp = "object_id"
    /\ callResult.done
    /\ callArgs[1][1] # callArgs[2][1]
    /\ Basename(callArgs[1][1]) = Basename(callArgs[2][1])
    /\ callArgs[1][2] = callArgs[2][2]
    /\ callResult.value[1] = callResult.value[2]

\* C18: latest_manifest returns the manifest stored under the greatest key,
\* in string order, among the keys that begin with manifest/{hostname}/{user}/
\* and are not that bare prefix; when there is no such key it returns an empty
\* Manifest and does not fail.
C18_LatestManifest ==
    (callOp = "latest_manifest" /\ callResult.done) =>
        LET store == callArgs[1]
            prefix == name_prefix_for(callArgs[2], callArgs[3])
            keys == { k \in DOMAIN store : StartsWith(k, prefix) /\ k # prefix }
        IN /\ ~callResult.value.err
           /\ IF keys = {} THEN callResult.value.value.manifest = <<>>
              ELSE \E k \in keys :
                      /\ \A j \in keys : j = k \/ StrLess(j, k)
                      /\ callResult.value.value = from_csv(store[k]).value

\* C23: DirectoryEntry.for_directory returns one entry per regular file that
\* is a direct child of the directory, never an entry for the cache file, for a
\* subdirectory or for a file of a subdirectory, in the order of the file
\* names as strings; a directory without regular files gives no entry, and a
\* path that is not a directory gives an error.
C23_DirectChildrenSorted ==
    (callOp = "for_directory" /\ callResult.done) =>
        LET fsys == callArgs[1]
            path == callArgs[3]
            entries == callResult.value.entries
        IN IF path \notin DOMAIN fsys THEN callResult.value.status = "error"
           ELSE /\ callResult.value.status = "ok"
                /\ Len(entries) = Cardinality(DOMAIN fsys[path].files)
                /\ \A n \in DOMAIN fsys[path].files :
                      \E i \in 1..Len(entries) : entries[i].path = PathJoin(path, n)
                /\ \A i \in 1..Len(entries) : \A j \in 1..Len(entries) :
                      i < j => StrLess(Basename(entries[i].path), Basename(entries[j].path))

\* a directory that holds three regular files, a subdirectory with a file and
\* a cache file was scanned, os.listdir giving b first: three entries, a first
C23_Witness ==
    /\ callOp = "for_directory"
    /\ callResult.done
    /\ callArgs[3] = ScanDir
    /\ callArgs[2][1] = <<"b">>
    /\ callArgs[1][ScanDir].cache.state = "text"
    /\ Len(callResult.value.entries) = 3
    /\ callResult.value.entries[1].path = PathJoin(ScanDir, <<".", "h">>)
    /\ callResult.value.entries[2].path = PathJoin(ScanDir, <<"a">>)

\* C24: within one run of backup no object id is uploaded twice: of two paths
\* of the new manifest that carry the same object id, put_archive is invoked
\* for at most one (put_archive stores the blob before it returns, and the
\* bucket's get_key sees it).
C24_NoDuplicateUpload ==
    \A p \in DOMAIN bDecided : \A q \in DOMAIN bDecided :
        (p # q /\ bNew.manifest[p].object_id = bNew.manifest[q].object_id)
            => ~(bDecided[p].needs /\ bDecided[q].needs)

\* a run took two paths with one object id that the bucket did not hold at its
\* start: the first was put, the second found the blob and was not
C24_Witness ==
    /\ bPc = "done"
    /\ \E p \in bPut : \E q \in (DOMAIN bDecided) \ bPut :
          /\ bNew.manifest[p].object_id = bNew.manifest[q].object_id
          /\ bNew.manifest[p].object_id \notin bStart.blobs
          /\ bDecided[q].held
          /\ ~bDecided[q].needs

\* the object ids that the manifest stored under key k refers to
ReferencedBy(k) ==
    LET m == from_csv(manifests[k])
    IN { m.value.manifest[p].object_id : p \in DOMAIN m.value.manifest }

\* C25: after any sequence of backup runs from a bucket without manifests,
\* runs ended by a failing put among them, every manifest stored in the bucket
\* can be read back and every object id it refers to names a blob that the
\* bucket holds.
C25_ManifestsBacked ==
    \A k \in DOMAIN manifests :
        /\ ~from_csv(manifests[k]).err
        /\ ReferencedBy(k) \subseteq blobs

\* the first run put a blob and was ended by a failing put, the second run
\* persisted a manifest that refers to that blob and to one it put itself
C25_Witness ==
    /\ runs = 2
    /\ bPc = "done"
    /\ bStart.manifests = <<>>
    /\ bStart.blobs # {}
    /\ bPut # {}
    /\ \E k \in DOMAIN manifests :
          /\ ReferencedBy(k) \cap bStart.blobs # {}
          /\ ReferencedBy(k) \ bStart.blobs # {}

\* a run is past the comparison, and its new manifest has the mapping of the
\* latest manifest under another name
SameMappingNewName ==
    /\ bPc \notin {"idle", "get_failed"}
    /\ bNew.manifest = bLatest.manifest
    /\ bNew.name # bLatest.name

\* C26: when the new manifest maps the same paths to the same entries as the
\* latest manifest but has another name, backup does not return early, invokes
\* put_archive for no path, and goes on to put_manifest, which stores the new
\* manifest under its name unless it raises.
C26_SameMappingPersisted ==
    /\ [](SameMappingNewName =>
             /\ bPc \in {"loop", "done", "persist_failed"}
             /\ \A p \in DOMAIN bDecided : ~bDecided[p].needs
             /\ bPut = {}
             /\ blobs = bStart.blobs)
    /\ (SameMappingNewName ~> (bPc = "persist_failed" \/ PersistedNew))

\* a run whose new manifest has the entries of the latest one, which are some,
\* under a later name took every path, put none and stored the manifest
C26_Witness ==
    /\ SameMappingNewName
    /\ PersistedNew
    /\ DOMAIN bNew.manifest # {}
    /\ DOMAIN bDecided = DOMAIN bNew.manifest
    /\ bLatest.name \in DOMAIN manifests
    /\ manifests[bLatest.name] # manifests[bNew.name]

\* a run is past the comparison; the run before was ended by a put_archive
\* that raised, and this run found the files as that one had found them
RunAfterAbortedRun ==
    /\ bPc \notin {"idle", "get_failed"}
    /\ bPrev.pc = "put_failed"
    /\ bNew.manifest = bPrev.manifest

\* C27: a run that follows a run ended by a raising put_archive, over the same
\* files, invokes put_archive only for object ids that the bucket did not hold
\* when it began, so for none of the blobs the aborted run stored, and stores
\* its manifest unless put_archive or put_manifest raises again; the stored
\* manifest then refers only to blobs that the bucket holds.
C27_ResumeAfterAbort ==
    /\ [](RunAfterAbortedRun =>
             /\ bPc # "nochange"
             /\ \A p \in DOMAIN bDecided :
                   bDecided[p].needs => bNew.manifest[p].object_id \notin bStart.blobs
             /\ { bNew.manifest[p].object_id : p \in bPut } \cap bPrev.put = {}
             /\ bPrev.put \subseteq bStart.blobs
             /\ PersistedNew =>
                   { bNew.manifest[p].object_id : p \in DOMAIN bNew.manifest } \subseteq blobs)
    /\ (RunAfterAbortedRun ~> (bPc \in {"put_failed", "persist_failed"} \/ PersistedNew))

\* the run before put one blob and was ended by put_archive raising for the
\* next; this run skipped the blob that was stored, put the other and stored
\* its manifest
C27_Witness ==
    /\ RunAfterAbortedRun
    /\ PersistedNew
    /\ bPrev.put # {}
    /\ bPut # {}
    /\ \E q \in (DOMAIN bDecided) \ bPut : bNew.manifest[q].object_id \in bPrev.put

\* C28: every FileEntry that DirectoryEntry.for_directory returns, taken from
\* the cache or made by hashing the file, has the StatInfo the file had when
\* it was scanned and the absolute path of the file, whatever scans, cache
\* writes and file changes went before and however the directory was named.
C28_EntriesLive ==
    scanResult.status = "ok" =>
        /\ scanResult.path = ScanDir
        /\ \A i \in 1..Len(scanResult.entries) :
              \E n \in DOMAIN scanSeen :
                 /\ scanResult.entries[i].path = <<SLASH, "r", SLASH>> \o n
                 /\ scanResult.entries[i].stat_info = scanSeen[n].stat

\* a scan took one file from the cache and hashed another, which the cache
\* has with the StatInfo it had before it changed
C28_Witness ==
    /\ scanResult.status = "ok"
    /\ \E n \in DOMAIN scanSeen :
          /\ PathJoin(ScanDir, n) \in DOMAIN scanCache
          /\ PathJoin(ScanDir, n) \notin hashed
    /\ \E n \in DOMAIN scanSeen :
          /\ PathJoin(ScanDir, n) \in DOMAIN scanCache
          /\ scanCache[PathJoin(ScanDir, n)].stat_info # scanSeen[n].stat
          /\ scanSeen[n].stat[6] > 65536
          /\ PathJoin(ScanDir, n) \in hashed

====
